---- MODULE Spec2Model ----
(***************************************************************************)
(* A model of go-yamlvalidator (src/validator.go): the validation run of   *)
(* Validator.validateWithContext over a stream of decoded documents, as a  *)
(* state machine whose steps are the loop iterations and calls of the Go   *)
(* code, with an explicit call stack for the recursion                     *)
(* validateNode -> validateMapping / validateSequence -> validateNode.     *)
(*                                                                         *)
(* Strings that the code inspects character by character (scalar values,   *)
(* key names) are sequences of one-character strings.  A path is a         *)
(* sequence of tokens (records), one per piece the code concatenates.      *)
(* A pointer that may be nil is a sequence of length 0 or 1.               *)
(***************************************************************************)
EXTENDS Integers, Sequences, FiniteSets, TLC

VARIABLES
    ctx,        \* the ValidationContext of the run: options, collector, stopped
    schema,     \* Validator.schema
    stream,     \* what the yaml.Decoder yields, document after document
    anchors,    \* anchor name -> node: the targets of yaml.Node.Alias
    docIndex,   \* validateWithContext: docIndex
    pc,         \* validateWithContext: position of the driver loop
    stack,      \* the call stack below validateWithContext (last = innermost)
    calls,      \* the calls received by the validators and by validateNode for a map value
    render,     \* renderLineWithCaret: its arguments and, once it returned, its results
    result,     \* a ValidationResult: Collector and SourceLines
    pending,    \* the diagnostics the caller of ErrorCollector.Add has yet to add
    adds,       \* the diagnostics passed to Add of the current result.Collector, in order
    output      \* what FormatAll returned last: the formatted diagnostics, in order

formatVars == <<render, result, pending, adds, output>>

vars == <<ctx, schema, stream, anchors, docIndex, pc, stack, calls, formatVars>>

-----------------------------------------------------------------------------
(* Enumerations of validator.go *)

LevelWarning == 0
LevelError == 1

TypeAny == 0
TypeNull == 1
TypeString == 2
TypeInt == 3
TypeFloat == 4
TypeBool == 5
TypeMap == 6
TypeSequence == 7

NodeTypes == TypeAny .. TypeSequence

UnknownKeyInherit == 0
UnknownKeyError == 1
UnknownKeyWarn == 2
UnknownKeyIgnore == 3

(* yaml.v3 node kinds, by name *)
DocumentNode == "document"
SequenceNode == "sequence"
MappingNode == "mapping"
ScalarNode == "scalar"
AliasNode == "alias"

(* yaml.v3 short tags *)
StrTag == "!!str"
IntTag == "!!int"
FloatTag == "!!float"
BoolTag == "!!bool"
NullTag == "!!null"

-----------------------------------------------------------------------------
(* Generic helpers *)

Range(s) == {s[i] : i \in DOMAIN s}

RECURSIVE Concat(_)
Concat(ss) == IF ss = <<>> THEN <<>> ELSE Head(ss) \o Concat(Tail(ss))

SelectIdx(s, Test(_)) ==
    LET RECURSIVE go(_)
        go(i) == IF i > Len(s) THEN <<>>
                 ELSE (IF Test(i) THEN <<s[i]>> ELSE <<>>) \o go(i + 1)
    IN go(1)

-----------------------------------------------------------------------------
(* yaml.Node as this package reads it: Kind, Tag, Value, Line, Column,      *)
(* Content (children; a mapping's key and value nodes alternate) and Alias  *)
(* (the name of the anchored node, "" for a nil pointer).                   *)

Scalar(tag, value, line, col) ==
    [Kind |-> ScalarNode, Tag |-> tag, Value |-> value, Line |-> line, Column |-> col,
     Content |-> <<>>, Alias |-> ""]

Mapping(content, line, col) ==
    [Kind |-> MappingNode, Tag |-> "!!map", Value |-> <<>>, Line |-> line, Column |-> col,
     Content |-> content, Alias |-> ""]

Sequence(content, line, col) ==
    [Kind |-> SequenceNode, Tag |-> "!!seq", Value |-> <<>>, Line |-> line, Column |-> col,
     Content |-> content, Alias |-> ""]

AliasTo(name, line, col) ==
    [Kind |-> AliasNode, Tag |-> "", Value |-> <<>>, Line |-> line, Column |-> col,
     Content |-> <<>>, Alias |-> name]

(* node.Alias != nil, and the node it points to *)
HasAlias(tbl, node) == node.Alias \in DOMAIN tbl
Deref(tbl, node) == tbl[node.Alias]

-----------------------------------------------------------------------------
(* Strings, character by character *)

UpperChars == <<"A","B","C","D","E","F","G","H","I","J","K","L","M",
                "N","O","P","Q","R","S","T","U","V","W","X","Y","Z">>
LowerChars == <<"a","b","c","d","e","f","g","h","i","j","k","l","m",
                "n","o","p","q","r","s","t","u","v","w","x","y","z">>

ToLowerChar(c) ==
    IF \E i \in DOMAIN UpperChars : UpperChars[i] = c
    THEN LowerChars[CHOOSE i \in DOMAIN UpperChars : UpperChars[i] = c]
    ELSE c

(* strings.ToLower *)
ToLower(s) == [i \in DOMAIN s |-> ToLowerChar(s[i])]

DecDigits == {"0","1","2","3","4","5","6","7","8","9"}
OctDigits == {"0","1","2","3","4","5","6","7"}
BinDigits == {"0","1"}
HexDigits == DecDigits \cup {"a","b","c","d","e","f","A","B","C","D","E","F"}

DigitsOfBase(base) ==
    CASE base = 2 -> BinDigits
      [] base = 8 -> OctDigits
      [] base = 10 -> DecDigits
      [] OTHER -> HexDigits

DigitValue(c) ==
    CASE c \in DecDigits -> (CHOOSE n \in 0..9 : <<"0","1","2","3","4","5","6","7","8","9">>[n + 1] = c)
      [] c \in {"a","A"} -> 10
      [] c \in {"b","B"} -> 11
      [] c \in {"c","C"} -> 12
      [] c \in {"d","D"} -> 13
      [] c \in {"e","E"} -> 14
      [] OTHER -> 15

Drop(s, n) == SubSeq(s, n + 1, Len(s))
Take(s, n) == SubSeq(s, 1, n)
HasPrefix(s, p) == Len(s) >= Len(p) /\ Take(s, Len(p)) = p

-----------------------------------------------------------------------------
(* strconv.ParseInt and strconv.ParseFloat, as far as they decide err == nil. *)
(* The value of a digit string is never computed: a 64-bit range check       *)
(* compares digit strings, so no integer of the model exceeds a digit.       *)

RECURSIVE StripZeros(_)
StripZeros(ds) == IF ds # <<>> /\ Head(ds) = "0" THEN StripZeros(Tail(ds)) ELSE ds

RECURSIVE DigitsLeq(_, _)
(* for digit strings of equal length: a <= b *)
DigitsLeq(a, b) ==
    IF a = <<>> THEN TRUE
    ELSE IF DigitValue(Head(a)) # DigitValue(Head(b))
         THEN DigitValue(Head(a)) < DigitValue(Head(b))
         ELSE DigitsLeq(Tail(a), Tail(b))

Repeat(c, n) == [i \in 1..n |-> c]

(* the digits of 2^63 - 1 in the base *)
MaxInt64Digits(base) ==
    CASE base = 2 -> Repeat("1", 63)
      [] base = 8 -> Repeat("7", 21)
      [] base = 10 -> <<"9","2","2","3","3","7","2","0","3","6","8","5","4","7","7","5","8","0","7">>
      [] OTHER -> <<"7">> \o Repeat("f", 15)

(* the digits of 2^63 in the base *)
MinInt64Digits(base) ==
    CASE base = 2 -> <<"1">> \o Repeat("0", 63)
      [] base = 8 -> <<"1">> \o Repeat("0", 21)
      [] base = 10 -> <<"9","2","2","3","3","7","2","0","3","6","8","5","4","7","7","5","8","0","8">>
      [] OTHER -> <<"8">> \o Repeat("0", 15)

(* the magnitude ds (digits of the base) fits an int64 of the given sign *)
FitsInt64(ds, base, neg) ==
    LET d == StripZeros(ds)
        lim == IF neg THEN MinInt64Digits(base) ELSE MaxInt64Digits(base)
    IN \/ Len(d) < Len(lim)
       \/ Len(d) = Len(lim) /\ DigitsLeq(d, lim)

(* strconv.underscoreOK on the part after sign and base prefix; hasPrefix  *)
(* says whether a base prefix precedes it                                  *)
UnderscoreOK(body, hasPrefix) ==
    /\ \A i \in DOMAIN body :
          body[i] = "_" =>
             /\ (i > 1 /\ body[i - 1] # "_") \/ (i = 1 /\ hasPrefix)
             /\ i < Len(body) /\ body[i + 1] # "_"

(* strconv.ParseInt(s, base, 64) returns a nil error.  base 0 reads the    *)
(* base from the prefix and lets underscores separate digits.              *)
ParseIntOK(s, base) ==
    IF s = <<>> THEN FALSE
    ELSE
      LET neg == Head(s) = "-"
          u == IF Head(s) \in {"+", "-"} THEN Tail(s) ELSE s
          pfx == IF Len(u) >= 2 THEN ToLower(Take(u, 2)) ELSE <<>>
          b == CASE base # 0 -> base
                 [] pfx = <<"0","x">> /\ Len(u) >= 3 -> 16
                 [] pfx = <<"0","b">> /\ Len(u) >= 3 -> 2
                 [] pfx = <<"0","o">> /\ Len(u) >= 3 -> 8
                 [] u # <<>> /\ Head(u) = "0" -> 8
                 [] OTHER -> 10
          skip == CASE base # 0 -> 0
                    [] pfx \in {<<"0","x">>, <<"0","b">>, <<"0","o">>} /\ Len(u) >= 3 -> 2
                    [] u # <<>> /\ Head(u) = "0" -> 1
                    [] OTHER -> 0
          body == Drop(u, skip)
          ds == SelectSeq(body, LAMBDA c : c # "_")
      IN /\ u # <<>>
         /\ \A i \in DOMAIN body :
               body[i] \in DigitsOfBase(b) \/ (base = 0 /\ body[i] = "_")
         /\ (base = 0 /\ skip = 1) \/ ds # <<>>
         /\ base = 0 => UnderscoreOK(body, skip > 0)
         /\ FitsInt64(ds, b, neg)

(* looksLikeInt *)
looksLikeInt(s0) ==
    IF s0 = <<>> THEN FALSE
    ELSE
      LET s == IF Head(s0) \in {"+", "-"} THEN Tail(s0) ELSE s0
          p == IF Len(s) > 2 THEN Take(s, 2) ELSE <<>>
      IN IF s = <<>> THEN FALSE
         ELSE IF p \in {<<"0","x">>, <<"0","X">>} THEN ParseIntOK(s, 0)
         ELSE IF p \in {<<"0","o">>, <<"0","O">>} THEN ParseIntOK(Drop(s, 2), 8)
         ELSE IF p \in {<<"0","b">>, <<"0","B">>} THEN ParseIntOK(Drop(s, 2), 2)
         ELSE ParseIntOK(s, 10)

(* strconv.ParseFloat(s, 64) returns a nil error, for decimal literals:    *)
(* [sign] digits [. digits] [e|E [sign] digits] with at least one mantissa *)
(* digit.  Hexadecimal floats, underscores and out-of-range exponents are  *)
(* outside the alphabet of the scalar values of this model; Inf, Infinity  *)
(* and NaN hold no '.', 'e' or 'E' and never reach ParseFloat.             *)
ParseFloatOK(s) ==
    LET u == IF s # <<>> /\ Head(s) \in {"+", "-"} THEN Tail(s) ELSE s
        ePos == {i \in DOMAIN u : u[i] \in {"e", "E"}}
        mant == IF ePos = {} THEN u ELSE Take(u, (CHOOSE i \in ePos : \A j \in ePos : i <= j) - 1)
        expo == IF ePos = {} THEN <<>> ELSE Drop(u, CHOOSE i \in ePos : \A j \in ePos : i <= j)
        expDigits == IF expo # <<>> /\ Head(expo) \in {"+", "-"} THEN Tail(expo) ELSE expo
    IN /\ \A i \in DOMAIN mant : mant[i] \in DecDigits \cup {"."}
       /\ Cardinality({i \in DOMAIN mant : mant[i] = "."}) <= 1
       /\ \E i \in DOMAIN mant : mant[i] \in DecDigits
       /\ ePos # {} => /\ expDigits # <<>>
                       /\ \A i \in DOMAIN expDigits : expDigits[i] \in DecDigits

(* looksLikeFloat *)
looksLikeFloat(s) ==
    LET lower == ToLower(s)
    IN IF lower \in {<<".","i","n","f">>, <<"-",".","i","n","f">>,
                     <<"+",".","i","n","f">>, <<".","n","a","n">>}
       THEN TRUE
       ELSE IF ~ \E i \in DOMAIN s : s[i] \in {".", "e", "E"}
       THEN FALSE
       ELSE ParseFloatOK(s)

-----------------------------------------------------------------------------
(* Diagnostics, ErrorCollector and ValidationContext.                       *)
(* A ValidationError is [Level, Path, Line, Column, Message]; Message is    *)
(* [text, key, raw]: the fixed words of the message, the key name formatted *)
(* into it (or <<>>) and, for a parse error, the decoder's message.  The    *)
(* descriptive Got and Expected strings are not modelled.                   *)

Msg(text) == [text |-> text, key |-> <<>>, raw |-> <<>>]
MsgKey(text, key) == [text |-> text, key |-> key, raw |-> <<>>]

ValidationError(level, path, line, col, msg) ==
    [Level |-> level, Path |-> path, Line |-> line, Column |-> col, Message |-> msg]

NewErrorCollector == [errors |-> <<>>, warnings |-> <<>>]

(* ErrorCollector.Add filing every diagnostic under the errors *)
CollectorAddAsError(c, err) == [c EXCEPT !.errors = Append(@, err)]

(* ErrorCollector.Add *)
CollectorAdd(c, err) ==
    IF err.Level = LevelError
    THEN [c EXCEPT !.errors = Append(@, err)]
    ELSE [c EXCEPT !.warnings = Append(@, err)]

(* ErrorCollector.HasErrors *)
HasErrors(c) == Len(c.errors) > 0

(* ErrorCollector.All *)
All(c) == c.errors \o c.warnings

(* ValidateWithOptions: the caller's options with a fresh collector *)
NewContext(strictKeys, stopOnFirst, strictTypes, yaml11) ==
    [StrictKeys |-> strictKeys, StopOnFirst |-> stopOnFirst, StrictTypes |-> strictTypes,
     YAML11Booleans |-> yaml11, collector |-> NewErrorCollector, stopped |-> FALSE]

(* AddError without the test of ctx.stopped *)
AddErrorUnguarded(c, err) ==
    [c EXCEPT !.collector = CollectorAdd(@, err),
              !.stopped = IF c.StopOnFirst /\ err.Level = LevelError THEN TRUE ELSE @]

(* ValidationContext.AddError *)
AddError(c, err) ==
    IF c.stopped THEN c
    ELSE [c EXCEPT !.collector = CollectorAdd(@, err),
                   !.stopped = IF c.StopOnFirst /\ err.Level = LevelError THEN TRUE ELSE @]

(* ValidationContext.IsStopped *)
IsStopped(c) == c.stopped

RECURSIVE AddErrors(_, _)
(* AddError for each diagnostic of a list, in order *)
AddErrors(c, errs) ==
    IF errs = <<>> THEN c ELSE AddErrors(AddError(c, Head(errs)), Tail(errs))

-----------------------------------------------------------------------------
(* Paths: sequences of tokens *)

DocTok(i) == [t |-> "doc", k |-> <<>>, n |-> i]
KeyTok(k) == [t |-> "key", k |-> k, n |-> 0]
IdxTok(i) == [t |-> "idx", k |-> <<>>, n |-> i]
DotTok == [t |-> "dot", k |-> <<>>, n |-> 0]

(* fmt.Sprintf("doc[%d]", docIndex) *)
DocPrefix(i) == <<DocTok(i)>>

(* joinPath *)
joinPath(base, key) == IF base = <<>> THEN <<KeyTok(key)>> ELSE base \o <<DotTok, KeyTok(key)>>

(* fmt.Sprintf("%s[%d]", path, i) *)
itemPath(path, i) == path \o <<IdxTok(i)>>

(* cleanPath: strings.TrimPrefix(path, ".") *)
cleanPath(path) == IF path # <<>> /\ Head(path) = DotTok THEN Tail(path) ELSE path

-----------------------------------------------------------------------------
(* Type inference *)

YAML11Words == {<<"y">>, <<"y","e","s">>, <<"t","r","u","e">>, <<"o","n">>,
                <<"n">>, <<"n","o">>, <<"f","a","l","s","e">>, <<"o","f","f">>}

(* inferScalarType comparing the words of YAML 1.1 without lowering the case *)
inferScalarTypeCaseSensitive(node, c) ==
    LET val == node.Value
        lower == ToLower(val)
    IN CASE node.Tag = StrTag ->
              IF c.YAML11Booleans /\ val \in YAML11Words THEN TypeBool ELSE TypeString
         [] node.Tag = IntTag -> TypeInt
         [] node.Tag = FloatTag -> TypeFloat
         [] node.Tag = BoolTag -> TypeBool
         [] node.Tag = NullTag -> TypeNull
         [] OTHER ->
              IF c.StrictTypes THEN TypeString
              ELSE IF lower = <<"n","u","l","l">> \/ val = <<"~">> THEN TypeNull
              ELSE IF lower = <<"t","r","u","e">> \/ lower = <<"f","a","l","s","e">> THEN TypeBool
              ELSE IF c.YAML11Booleans /\ val \in YAML11Words THEN TypeBool
              ELSE IF looksLikeInt(val) THEN TypeInt
              ELSE IF looksLikeFloat(val) THEN TypeFloat
              ELSE TypeString

(* inferScalarType *)
inferScalarType(node, c) ==
    LET val == node.Value
        lower == ToLower(val)
    IN CASE node.Tag = StrTag ->
              IF c.YAML11Booleans /\ lower \in YAML11Words THEN TypeBool ELSE TypeString
         [] node.Tag = IntTag -> TypeInt
         [] node.Tag = FloatTag -> TypeFloat
         [] node.Tag = BoolTag -> TypeBool
         [] node.Tag = NullTag -> TypeNull
         [] OTHER ->
              IF c.StrictTypes THEN TypeString
              ELSE IF lower = <<"n","u","l","l">> \/ val = <<"~">> THEN TypeNull
              ELSE IF lower = <<"t","r","u","e">> \/ lower = <<"f","a","l","s","e">> THEN TypeBool
              ELSE IF c.YAML11Booleans /\ lower \in YAML11Words THEN TypeBool
              ELSE IF looksLikeInt(val) THEN TypeInt
              ELSE IF looksLikeFloat(val) THEN TypeFloat
              ELSE TypeString

RECURSIVE inferType(_, _, _)
(* inferType; tbl resolves node.Alias *)
inferType(tbl, node, c) ==
    CASE node.Kind = MappingNode -> TypeMap
      [] node.Kind = SequenceNode -> TypeSequence
      [] node.Kind = ScalarNode -> inferScalarType(node, c)
      [] node.Kind = AliasNode ->
           IF HasAlias(tbl, node) THEN inferType(tbl, Deref(tbl, node), c) ELSE TypeAny
      [] OTHER -> TypeAny

-----------------------------------------------------------------------------
(* FieldSchema.  A nil pointer or nil slice is <<>>, a nil map the empty    *)
(* function; Default is <<>> (nil) or <<v>>.                                *)

FieldSchema ==
    [Type |-> TypeAny, Required |-> FALSE, Nullable |-> FALSE, Deprecated |-> "",
     Default |-> <<>>, AllowedKeys |-> <<>>, AdditionalProperties |-> <<>>,
     UnknownKeyPolicy |-> UnknownKeyInherit, KeyValidators |-> <<>>,
     ItemSchema |-> <<>>, MinItems |-> <<>>, MaxItems |-> <<>>, Validators |-> <<>>,
     AnyOf |-> <<>>, ExactlyOneOf |-> <<>>, MutuallyExclusive |-> <<>>, Conditions |-> <<>>]

OfType(t) == [FieldSchema EXCEPT !.Type = t]

-----------------------------------------------------------------------------
(* The pluggable validators: the two interfaces, with the implementations   *)
(* of pkg/valuevalidator and pkg/keyvalidator that the scenarios use.       *)

NonEmptyValidator == [name |-> "NonEmpty", Min |-> <<>>, Max |-> <<>>]
LengthValidator(min, max) == [name |-> "Length", Min |-> min, Max |-> max]

(* the characters of the scalar values that UTF-8 encodes in two bytes: the *)
(* Cyrillic letters pe, er, i, ve, ie, te                                   *)
TwoByteChars == {"<U+043F>", "<U+0440>", "<U+0438>", "<U+0432>", "<U+0435>", "<U+0442>"}

RECURSIVE len(_)
(* len(s) of a Go string: the number of bytes of its UTF-8 encoding *)
len(s) == IF s = <<>> THEN 0 ELSE (IF Head(s) \in TwoByteChars THEN 2 ELSE 1) + len(Tail(s))
ForbiddenKeyValidator(forbidden) ==
    [name |-> "ForbiddenKey", Forbidden |-> forbidden, Min |-> <<>>, Max |-> <<>>]
LengthKeyValidator(min, max) ==
    [name |-> "LengthKey", Forbidden |-> <<>>, Min |-> min, Max |-> max]

(* NonEmptyValidator.Validate *)
NonEmptyValidate(node, path, c) ==
    LET isEmpty == CASE node.Kind = ScalarNode -> node.Value = <<>>
                     [] node.Kind \in {SequenceNode, MappingNode} -> Len(node.Content) = 0
                     [] OTHER -> FALSE
    IN IF isEmpty
       THEN AddError(c, ValidationError(LevelError, path, node.Line, node.Column,
                                        Msg("value cannot be empty")))
       ELSE c

(* LengthValidator.Validate *)
LengthValidate(vld, node, path, c) ==
    LET length == CASE node.Kind = ScalarNode -> len(node.Value)
                    [] node.Kind = SequenceNode -> Len(node.Content)
                    [] node.Kind = MappingNode -> Len(node.Content) \div 2
                    [] OTHER -> 0
        c1 == IF vld.Min # <<>> /\ length < vld.Min[1]
              THEN AddError(c, ValidationError(LevelError, path, node.Line, node.Column,
                                               Msg("length below minimum")))
              ELSE c
    IN IF vld.Max # <<>> /\ length > vld.Max[1]
       THEN AddError(c1, ValidationError(LevelError, path, node.Line, node.Column,
                                         Msg("length above maximum")))
       ELSE c1

(* ValueValidator.Validate, dispatched on the implementation *)
Validate(vld, node, path, c) ==
    CASE vld.name = "NonEmpty" -> NonEmptyValidate(node, path, c)
      [] vld.name = "Length" -> LengthValidate(vld, node, path, c)
      [] OTHER -> c

(* ForbiddenKeyValidator.ValidateKey *)
ForbiddenValidateKey(vld, key, keyNode, path, c) ==
    IF \E i \in DOMAIN vld.Forbidden : vld.Forbidden[i] = key
    THEN AddError(c, ValidationError(LevelError, path, keyNode.Line, keyNode.Column,
                                     MsgKey("key is forbidden", key)))
    ELSE c

(* LengthKeyValidator.ValidateKey; the length is the number of runes *)
LengthValidateKey(vld, key, keyNode, path, c) ==
    LET length == Len(key)
        c1 == IF vld.Min # <<>> /\ length < vld.Min[1]
              THEN AddError(c, ValidationError(LevelError, path, keyNode.Line, keyNode.Column,
                                               Msg("key too short")))
              ELSE c
    IN IF vld.Max # <<>> /\ length > vld.Max[1]
       THEN AddError(c1, ValidationError(LevelError, path, keyNode.Line, keyNode.Column,
                                         Msg("key too long")))
       ELSE c1

(* KeyValidator.ValidateKey, dispatched on the implementation *)
ValidateKey(vld, key, keyNode, path, c) ==
    CASE vld.name = "ForbiddenKey" -> ForbiddenValidateKey(vld, key, keyNode, path, c)
      [] vld.name = "LengthKey" -> LengthValidateKey(vld, key, keyNode, path, c)
      [] OTHER -> c

RECURSIVE ValidateKeyAll(_, _, _, _, _)
(* validateMapping: for _, kv := range schema.KeyValidators *)
ValidateKeyAll(vlds, key, keyNode, path, c) ==
    IF vlds = <<>> THEN c
    ELSE ValidateKeyAll(Tail(vlds), key, keyNode, path,
                        ValidateKey(Head(vlds), key, keyNode, path, c))

-----------------------------------------------------------------------------
(* parseYAMLError.  The decoder's message is a sequence of tokens           *)
(* [t, n]: "line" (the text `line `), "num" (digits, of value n), "colon",  *)
(* "space" (one white-space character), "column" (the text `column `) and   *)
(* "text" (anything else).                                                  *)

Tok(t) == [t |-> t, n |-> 0]
Num(n) == [t |-> "num", n |-> n]

(* yamlErrorLineRe matches at token i: `line (\d+):` *)
LineReAt(msg, i) ==
    /\ i + 2 <= Len(msg)
    /\ msg[i].t = "line" /\ msg[i + 1].t = "num" /\ msg[i + 2].t = "colon"

(* yamlErrorLineColRe matches at token i, its column number at token j:    *)
(* `line (\d+):\s*column (\d+)`                                             *)
LineColReAt(msg, i, j) ==
    /\ LineReAt(msg, i)
    /\ j - 1 > i + 2 /\ j <= Len(msg)
    /\ \A k \in (i + 3)..(j - 2) : msg[k].t = "space"
    /\ msg[j - 1].t = "column" /\ msg[j].t = "num"

(* parseYAMLError numbering the documents from one *)
parseYAMLErrorOneBased(msg, idx) ==
    ValidationError(LevelError, DocPrefix(idx + 1), 0, 0,
                    [text |-> "parse error", key |-> <<>>, raw |-> msg])

(* parseYAMLError *)
parseYAMLError(msg, idx) ==
    LET lc == {i \in DOMAIN msg : \E j \in DOMAIN msg : LineColReAt(msg, i, j)}
        l == {i \in DOMAIN msg : LineReAt(msg, i)}
        first(S) == CHOOSE i \in S : \A k \in S : i <= k
        line == IF lc # {} THEN msg[first(lc) + 1].n
                ELSE IF l # {} THEN msg[first(l) + 1].n ELSE 0
        col == IF lc # {}
               THEN msg[CHOOSE j \in DOMAIN msg : LineColReAt(msg, first(lc), j)].n
               ELSE 0
    IN ValidationError(LevelError, DocPrefix(idx), line, col,
                       [text |-> "parse error", key |-> <<>>, raw |-> msg])

-----------------------------------------------------------------------------
(* validateNode, up to its dispatch on the node kind *)

(* checkTypeWithSchema letting every null pass *)
checkTypeNullPasses(tbl, node, sch, path, c) ==
    LET expected == sch.Type
        actual == inferType(tbl, node, c)
    IN IF expected = TypeAny \/ actual = TypeNull \/ actual = expected
          \/ (expected = TypeFloat /\ actual = TypeInt)
       THEN [ok |-> TRUE, ctx |-> c]
       ELSE [ok |-> FALSE,
             ctx |-> AddError(c, ValidationError(LevelError, cleanPath(path), node.Line,
                                                 node.Column, Msg("type mismatch")))]

(* checkTypeWithSchema coercing between Int and Float in both directions *)
checkTypeCoercesBothWays(tbl, node, sch, path, c) ==
    LET expected == sch.Type
        actual == inferType(tbl, node, c)
    IN IF expected = TypeAny THEN [ok |-> TRUE, ctx |-> c]
       ELSE IF actual = TypeNull
       THEN IF expected = TypeNull \/ sch.Nullable THEN [ok |-> TRUE, ctx |-> c]
            ELSE [ok |-> FALSE,
                  ctx |-> AddError(c, ValidationError(LevelError, cleanPath(path), node.Line,
                                                      node.Column, Msg("unexpected null value")))]
       ELSE IF actual = expected \/ {expected, actual} = {TypeFloat, TypeInt}
       THEN [ok |-> TRUE, ctx |-> c]
       ELSE [ok |-> FALSE,
             ctx |-> AddError(c, ValidationError(LevelError, cleanPath(path), node.Line,
                                                 node.Column, Msg("type mismatch")))]

(* checkTypeWithSchema: [ok, ctx] *)
checkTypeWithSchema(tbl, node, sch, path, c) ==
    LET expected == sch.Type
        actual == inferType(tbl, node, c)
    IN IF expected = TypeAny THEN [ok |-> TRUE, ctx |-> c]
       ELSE IF actual = TypeNull
       THEN IF expected = TypeNull THEN [ok |-> TRUE, ctx |-> c]
            ELSE IF sch.Nullable THEN [ok |-> TRUE, ctx |-> c]
            ELSE [ok |-> FALSE,
                  ctx |-> AddError(c, ValidationError(LevelError, cleanPath(path), node.Line,
                                                      node.Column, Msg("unexpected null value")))]
       ELSE IF actual = expected THEN [ok |-> TRUE, ctx |-> c]
       ELSE IF expected = TypeFloat /\ actual = TypeInt THEN [ok |-> TRUE, ctx |-> c]
       ELSE [ok |-> FALSE,
             ctx |-> AddError(c, ValidationError(LevelError, cleanPath(path), node.Line,
                                                 node.Column, Msg("type mismatch")))]

-----------------------------------------------------------------------------
(* Merge keys *)

MergeKey == <<"<", "<">>

kvPair(k, v) == [key |-> k, value |-> v]

(* mappingToPairs *)
mappingToPairs(m) ==
    [j \in 1..(Len(m.Content) \div 2) |-> kvPair(m.Content[2 * j - 1], m.Content[2 * j])]

(* the calls of extractMergePairs, one inside the other, that the stack of *)
(* the goroutine holds before the runtime ends the process                 *)
MaxStack == 8

RECURSIVE extractMergePairsExceeds(_, _, _)
(* extractMergePairs: the recursion from val nests deeper than frames calls *)
extractMergePairsExceeds(tbl, val, frames) ==
    IF frames = 0 THEN TRUE
    ELSE CASE val.Kind = AliasNode ->
                HasAlias(tbl, val) /\ extractMergePairsExceeds(tbl, Deref(tbl, val), frames - 1)
           [] val.Kind = SequenceNode ->
                \E j \in DOMAIN val.Content :
                   extractMergePairsExceeds(tbl, val.Content[j], frames - 1)
           [] OTHER -> FALSE

(* expandMappingWithMerges exhausts the stack on the value of a merge key *)
expandExhaustsStack(tbl, node) ==
    /\ node.Kind = MappingNode
    /\ \E j \in 1..(Len(node.Content) \div 2) :
          /\ node.Content[2 * j - 1].Value = MergeKey
          /\ extractMergePairsExceeds(tbl, node.Content[2 * j], MaxStack)

RECURSIVE extractMergePairs(_, _)
(* extractMergePairs; tbl resolves val.Alias *)
extractMergePairs(tbl, val) ==
    CASE val.Kind = AliasNode ->
           IF HasAlias(tbl, val) THEN extractMergePairs(tbl, Deref(tbl, val)) ELSE <<>>
      [] val.Kind = MappingNode -> mappingToPairs(val)
      [] val.Kind = SequenceNode ->
           Concat([j \in DOMAIN val.Content |-> extractMergePairs(tbl, val.Content[j])])
      [] OTHER -> <<>>

(* dedupePairsKeepLast: the seen map after its first loop ran over pairs[1..n] *)
RECURSIVE SeenUpTo(_, _)
SeenUpTo(pairs, n) ==
    IF n = 0 THEN <<>>
    ELSE (pairs[n].key.Value :> n) @@ SeenUpTo(pairs, n - 1)

(* dedupePairsKeepLast keeping the first occurrence of each key *)
dedupePairsKeepFirst(pairs) ==
    SelectIdx(pairs, LAMBDA idx : \A j \in 1..(idx - 1) : pairs[j].key.Value # pairs[idx].key.Value)

(* dedupePairsKeepLast *)
dedupePairsKeepLast(pairs) ==
    LET seen == SeenUpTo(pairs, Len(pairs))
    IN SelectIdx(pairs, LAMBDA idx : seen[pairs[idx].key.Value] = idx)

(* expandMappingWithMerges, its loop: the explicit pairs and the pairs of  *)
(* the merge keys, appended in source order                                 *)
appendedPairs(tbl, node) ==
    Concat([j \in 1..(Len(node.Content) \div 2) |->
              LET keyNode == node.Content[2 * j - 1]
                  valueNode == node.Content[2 * j]
              IN IF keyNode.Value = MergeKey
                 THEN extractMergePairs(tbl, valueNode)
                 ELSE <<kvPair(keyNode, valueNode)>>])

(* expandMappingWithMerges *)
expandMappingWithMerges(tbl, node) ==
    IF node.Kind # MappingNode THEN <<>>
    ELSE dedupePairsKeepLast(appendedPairs(tbl, node))

-----------------------------------------------------------------------------
(* Unknown keys and the inter-field rules of validateMapping.  foundKeys    *)
(* and keyNodes are functions from the key names met so far; a key outside  *)
(* the domain is the nil of foundKeys[key].                                 *)

(* resolveUnknownKeyLevel with the two levels of Inherit exchanged *)
resolveUnknownKeyLevelLenient(policy, c) ==
    CASE policy = UnknownKeyError -> [level |-> LevelError, report |-> TRUE]
      [] policy = UnknownKeyWarn -> [level |-> LevelWarning, report |-> TRUE]
      [] policy = UnknownKeyIgnore -> [level |-> 0, report |-> FALSE]
      [] OTHER -> IF c.StrictKeys THEN [level |-> LevelWarning, report |-> TRUE]
                  ELSE [level |-> LevelError, report |-> TRUE]

(* resolveUnknownKeyLevel: [level, report] *)
resolveUnknownKeyLevel(policy, c) ==
    CASE policy = UnknownKeyError -> [level |-> LevelError, report |-> TRUE]
      [] policy = UnknownKeyWarn -> [level |-> LevelWarning, report |-> TRUE]
      [] policy = UnknownKeyIgnore -> [level |-> 0, report |-> FALSE]
      [] OTHER -> IF c.StrictKeys THEN [level |-> LevelError, report |-> TRUE]
                  ELSE [level |-> LevelWarning, report |-> TRUE]

Found(foundKeys, key) == key \in DOMAIN foundKeys

(* checkRequiredFields; order is the order in which range visits AllowedKeys *)
checkRequiredFields(node, sch, path, foundKeys, c, order) ==
    AddErrors(c,
      Concat([j \in DOMAIN order |->
                IF sch.AllowedKeys[order[j]].Required /\ ~Found(foundKeys, order[j])
                THEN <<ValidationError(LevelError, cleanPath(joinPath(path, order[j])),
                                       node.Line, node.Column,
                                       MsgKey("required field is missing", order[j]))>>
                ELSE <<>>]))

(* checkDefaults warning for required keys as well *)
checkDefaultsAlsoRequired(node, sch, path, foundKeys, c, order) ==
    AddErrors(c,
      Concat([j \in DOMAIN order |->
                IF /\ sch.AllowedKeys[order[j]].Default # <<>>
                   /\ ~Found(foundKeys, order[j])
                THEN <<ValidationError(LevelWarning, cleanPath(joinPath(path, order[j])),
                                       node.Line, node.Column,
                                       MsgKey("field not set, will use default", order[j]))>>
                ELSE <<>>]))

(* checkDefaults; order is the order in which range visits AllowedKeys *)
checkDefaults(node, sch, path, foundKeys, c, order) ==
    AddErrors(c,
      Concat([j \in DOMAIN order |->
                IF /\ sch.AllowedKeys[order[j]].Default # <<>>
                   /\ ~Found(foundKeys, order[j])
                   /\ ~sch.AllowedKeys[order[j]].Required
                THEN <<ValidationError(LevelWarning, cleanPath(joinPath(path, order[j])),
                                       node.Line, node.Column,
                                       MsgKey("field not set, will use default", order[j]))>>
                ELSE <<>>]))

(* checkAnyOf satisfied by a group of which some key is present *)
checkAnyOfPartial(node, sch, path, foundKeys, c) ==
    IF Len(sch.AnyOf) = 0 THEN c
    ELSE IF \E g \in DOMAIN sch.AnyOf :
              \E j \in DOMAIN sch.AnyOf[g] : Found(foundKeys, sch.AnyOf[g][j])
    THEN c
    ELSE AddError(c, ValidationError(LevelError, cleanPath(path), node.Line, node.Column,
                                     Msg("at least one of the groups is required")))

(* checkAnyOf *)
checkAnyOf(node, sch, path, foundKeys, c) ==
    IF Len(sch.AnyOf) = 0 THEN c
    ELSE IF \E g \in DOMAIN sch.AnyOf :
              \A j \in DOMAIN sch.AnyOf[g] : Found(foundKeys, sch.AnyOf[g][j])
    THEN c
    ELSE AddError(c, ValidationError(LevelError, cleanPath(path), node.Line, node.Column,
                                     Msg("at least one of the groups is required")))

(* the found list of checkExactlyOneOf and checkMutuallyExclusive *)
FoundList(keys, foundKeys) == SelectSeq(keys, LAMBDA k : Found(foundKeys, k))

(* checkExactlyOneOf reporting several keys at the first matched key *)
checkExactlyOneOfAtFirst(node, sch, path, foundKeys, keyNodes, c) ==
    LET found == FoundList(sch.ExactlyOneOf, foundKeys)
    IN IF Len(sch.ExactlyOneOf) = 0 THEN c
       ELSE IF Len(found) = 0
       THEN AddError(c, ValidationError(LevelError, cleanPath(path), node.Line, node.Column,
                                        Msg("exactly one is required, none found")))
       ELSE IF Len(found) > 1
       THEN AddError(c, ValidationError(LevelError, cleanPath(path),
                                        keyNodes[found[1]].Line, keyNodes[found[1]].Column,
                                        Msg("exactly one is required, found several")))
       ELSE c

(* checkExactlyOneOf *)
checkExactlyOneOf(node, sch, path, foundKeys, keyNodes, c) ==
    LET found == FoundList(sch.ExactlyOneOf, foundKeys)
    IN IF Len(sch.ExactlyOneOf) = 0 THEN c
       ELSE IF Len(found) = 0
       THEN AddError(c, ValidationError(LevelError, cleanPath(path), node.Line, node.Column,
                                        Msg("exactly one is required, none found")))
       ELSE IF Len(found) > 1
       THEN AddError(c, ValidationError(LevelError, cleanPath(path),
                                        keyNodes[found[2]].Line, keyNodes[found[2]].Column,
                                        Msg("exactly one is required, found several")))
       ELSE c

(* checkMutuallyExclusive reporting at the mapping instead of the second key *)
checkMutuallyExclusiveAtMap(node, sch, path, foundKeys, keyNodes, c) ==
    LET found == FoundList(sch.MutuallyExclusive, foundKeys)
    IN IF Len(sch.MutuallyExclusive) = 0 THEN c
       ELSE IF Len(found) > 1
       THEN AddError(c, ValidationError(LevelError, cleanPath(path), node.Line, node.Column,
                                        Msg("fields are mutually exclusive")))
       ELSE c

(* checkMutuallyExclusive *)
checkMutuallyExclusive(node, sch, path, foundKeys, keyNodes, c) ==
    LET found == FoundList(sch.MutuallyExclusive, foundKeys)
    IN IF Len(sch.MutuallyExclusive) = 0 THEN c
       ELSE IF Len(found) > 1
       THEN AddError(c, ValidationError(LevelError, cleanPath(path),
                                        keyNodes[found[2]].Line, keyNodes[found[2]].Column,
                                        Msg("fields are mutually exclusive")))
       ELSE c

(* checkConditions reporting a missing key at the key of the condition field *)
ConditionErrorsAtKey(rule, path, foundKeys, keyNodes) ==
    IF ~Found(foundKeys, rule.ConditionField) THEN <<>>
    ELSE LET condNode == foundKeys[rule.ConditionField]
         IN IF condNode.Kind # ScalarNode THEN <<>>
            ELSE IF condNode.Value # rule.ConditionValue THEN <<>>
            ELSE Concat([j \in DOMAIN rule.ThenRequired |->
                           IF ~Found(foundKeys, rule.ThenRequired[j])
                           THEN <<ValidationError(LevelError,
                                     cleanPath(joinPath(path, rule.ThenRequired[j])),
                                     keyNodes[rule.ConditionField].Line,
                                     keyNodes[rule.ConditionField].Column,
                                     MsgKey("field is required when", rule.ThenRequired[j]))>>
                           ELSE <<>>])
                 \o
                 Concat([j \in DOMAIN rule.ThenForbidden |->
                           IF rule.ThenForbidden[j] \in DOMAIN keyNodes
                           THEN <<ValidationError(LevelError,
                                     cleanPath(joinPath(path, rule.ThenForbidden[j])),
                                     keyNodes[rule.ThenForbidden[j]].Line,
                                     keyNodes[rule.ThenForbidden[j]].Column,
                                     MsgKey("field is forbidden when", rule.ThenForbidden[j]))>>
                           ELSE <<>>])

(* checkConditions: the diagnostics of one rule *)
ConditionErrors(rule, path, foundKeys, keyNodes) ==
    IF ~Found(foundKeys, rule.ConditionField) THEN <<>>
    ELSE LET condNode == foundKeys[rule.ConditionField]
         IN IF condNode.Kind # ScalarNode THEN <<>>
            ELSE IF condNode.Value # rule.ConditionValue THEN <<>>
            ELSE Concat([j \in DOMAIN rule.ThenRequired |->
                           IF ~Found(foundKeys, rule.ThenRequired[j])
                           THEN <<ValidationError(LevelError,
                                     cleanPath(joinPath(path, rule.ThenRequired[j])),
                                     condNode.Line, condNode.Column,
                                     MsgKey("field is required when", rule.ThenRequired[j]))>>
                           ELSE <<>>])
                 \o
                 Concat([j \in DOMAIN rule.ThenForbidden |->
                           IF rule.ThenForbidden[j] \in DOMAIN keyNodes
                           THEN <<ValidationError(LevelError,
                                     cleanPath(joinPath(path, rule.ThenForbidden[j])),
                                     keyNodes[rule.ThenForbidden[j]].Line,
                                     keyNodes[rule.ThenForbidden[j]].Column,
                                     MsgKey("field is forbidden when", rule.ThenForbidden[j]))>>
                           ELSE <<>>])

(* checkConditions *)
checkConditions(node, sch, path, foundKeys, keyNodes, c) ==
    AddErrors(c, Concat([r \in DOMAIN sch.Conditions |->
                           ConditionErrors(sch.Conditions[r], path, foundKeys, keyNodes)]))

-----------------------------------------------------------------------------
(* validateNode, validateMapping and validateSequence, piece by piece *)

(* validateNode from its entry to the type check, reporting a deprecated    *)
(* field as an Error                                                        *)
validateNodeHeadDeprecatedError(tbl, node, schOpt, path, c) ==
    IF schOpt = <<>> \/ IsStopped(c) THEN [ctx |-> c, node |-> node, go |-> FALSE]
    ELSE IF node.Kind = AliasNode /\ ~HasAlias(tbl, node)
    THEN [ctx |-> AddError(c, ValidationError(LevelError, cleanPath(path), node.Line,
                                              node.Column, Msg("unresolved alias"))),
          node |-> node, go |-> FALSE]
    ELSE
      LET sch == schOpt[1]
          n1 == IF node.Kind = AliasNode THEN Deref(tbl, node) ELSE node
          c1 == IF sch.Deprecated # ""
                THEN AddError(c, ValidationError(LevelError, cleanPath(path), n1.Line,
                        n1.Column,
                        Msg(IF sch.Deprecated = "true" THEN "this field is deprecated"
                            ELSE sch.Deprecated)))
                ELSE c
          tc == checkTypeWithSchema(tbl, n1, sch, path, c1)
      IN [ctx |-> tc.ctx, node |-> n1, go |-> tc.ok]

(* validateNode from its entry to the type check, going on to the          *)
(* structure validation whatever the type check answers                     *)
validateNodeHeadGoOn(tbl, node, schOpt, path, c) ==
    IF schOpt = <<>> \/ IsStopped(c) THEN [ctx |-> c, node |-> node, go |-> FALSE]
    ELSE IF node.Kind = AliasNode /\ ~HasAlias(tbl, node)
    THEN [ctx |-> AddError(c, ValidationError(LevelError, cleanPath(path), node.Line,
                                              node.Column, Msg("unresolved alias"))),
          node |-> node, go |-> FALSE]
    ELSE
      LET sch == schOpt[1]
          n1 == IF node.Kind = AliasNode THEN Deref(tbl, node) ELSE node
          c1 == IF sch.Deprecated # ""
                THEN AddError(c, ValidationError(LevelWarning, cleanPath(path), n1.Line,
                        n1.Column,
                        Msg(IF sch.Deprecated = "true" THEN "this field is deprecated"
                            ELSE sch.Deprecated)))
                ELSE c
          tc == checkTypeWithSchema(tbl, n1, sch, path, c1)
      IN [ctx |-> tc.ctx, node |-> n1, go |-> TRUE]

(* validateNode from its entry to the type check: [ctx, node, go]; go says  *)
(* whether the function goes on to the structure validation                 *)
validateNodeHead(tbl, node, schOpt, path, c) ==
    IF schOpt = <<>> \/ IsStopped(c) THEN [ctx |-> c, node |-> node, go |-> FALSE]
    ELSE IF node.Kind = AliasNode /\ ~HasAlias(tbl, node)
    THEN [ctx |-> AddError(c, ValidationError(LevelError, cleanPath(path), node.Line,
                                              node.Column, Msg("unresolved alias"))),
          node |-> node, go |-> FALSE]
    ELSE
      LET sch == schOpt[1]
          n1 == IF node.Kind = AliasNode THEN Deref(tbl, node) ELSE node
          c1 == IF sch.Deprecated # ""
                THEN AddError(c, ValidationError(LevelWarning, cleanPath(path), n1.Line,
                        n1.Column,
                        Msg(IF sch.Deprecated = "true" THEN "this field is deprecated"
                            ELSE sch.Deprecated)))
                ELSE c
          tc == checkTypeWithSchema(tbl, n1, sch, path, c1)
      IN [ctx |-> tc.ctx, node |-> n1, go |-> tc.ok]

(* a call received by a validator (op "ValidateKey" or "Validate", idx its  *)
(* place in the schema's list) or by validateNode for the value of a key    *)
Call(op, idx, key, path) == [op |-> op, idx |-> idx, key |-> key, path |-> path]

(* validateMapping: the calls of the loop over schema.KeyValidators *)
keyValidatorCalls(sch, key, fieldPath) ==
    [j \in DOMAIN sch.KeyValidators |-> Call("ValidateKey", j, key, cleanPath(fieldPath))]

(* validateMapping, one pair of the loop, running the key validators on the *)
(* keys of AllowedKeys only                                                 *)
validatePairKnownKeysOnly(sch, kv, path, c) ==
    LET key == kv.key.Value
        fieldPath == joinPath(path, key)
        c1 == ValidateKeyAll(sch.KeyValidators, key, kv.key, cleanPath(fieldPath), c)
        r == resolveUnknownKeyLevel(sch.UnknownKeyPolicy, c)
    IN IF key \in DOMAIN sch.AllowedKeys
       THEN [ctx |-> c1,
             call |-> <<[node |-> kv.value, schema |-> <<sch.AllowedKeys[key]>>,
                         path |-> fieldPath]>>,
             calls |-> keyValidatorCalls(sch, key, fieldPath)
                       \o <<Call("validateNode", 0, key, fieldPath)>>]
       ELSE IF sch.AdditionalProperties # <<>>
       THEN [ctx |-> c,
             call |-> <<[node |-> kv.value, schema |-> sch.AdditionalProperties,
                         path |-> fieldPath]>>,
             calls |-> <<Call("validateNode", 0, key, fieldPath)>>]
       ELSE [ctx |-> IF r.report
                     THEN AddError(c, ValidationError(r.level, cleanPath(fieldPath),
                                         kv.key.Line, kv.key.Column, MsgKey("unknown key", key)))
                     ELSE c,
             call |-> <<>>,
             calls |-> <<>>]

(* validateMapping, one pair of the loop: [ctx, call, calls]; call holds    *)
(* the arguments of the validateNode call the iteration makes, if it makes  *)
(* one, and calls the calls of the iteration in the order it makes them     *)
validatePair(sch, kv, path, c) ==
    LET key == kv.key.Value
        fieldPath == joinPath(path, key)
        c1 == ValidateKeyAll(sch.KeyValidators, key, kv.key, cleanPath(fieldPath), c)
        r == resolveUnknownKeyLevel(sch.UnknownKeyPolicy, c1)
    IN IF key \in DOMAIN sch.AllowedKeys
       THEN [ctx |-> c1,
             call |-> <<[node |-> kv.value, schema |-> <<sch.AllowedKeys[key]>>,
                         path |-> fieldPath]>>,
             calls |-> keyValidatorCalls(sch, key, fieldPath)
                       \o <<Call("validateNode", 0, key, fieldPath)>>]
       ELSE IF sch.AdditionalProperties # <<>>
       THEN [ctx |-> c1,
             call |-> <<[node |-> kv.value, schema |-> sch.AdditionalProperties,
                         path |-> fieldPath]>>,
             calls |-> keyValidatorCalls(sch, key, fieldPath)
                       \o <<Call("validateNode", 0, key, fieldPath)>>]
       ELSE [ctx |-> IF r.report
                     THEN AddError(c1, ValidationError(r.level, cleanPath(fieldPath),
                                         kv.key.Line, kv.key.Column, MsgKey("unknown key", key)))
                     ELSE c1,
             call |-> <<>>,
             calls |-> keyValidatorCalls(sch, key, fieldPath)]

(* validateSequence, the item-count checks *)
(* validateSequence, the item-count checks, with MaxItems an exclusive limit *)
checkItemCountsExclusive(node, sch, path, c) ==
    LET length == Len(node.Content)
        c1 == IF sch.MinItems # <<>> /\ length < sch.MinItems[1]
              THEN AddError(c, ValidationError(LevelError, cleanPath(path), node.Line,
                                               node.Column, Msg("too few items")))
              ELSE c
    IN IF sch.MaxItems # <<>> /\ length >= sch.MaxItems[1]
       THEN AddError(c1, ValidationError(LevelError, cleanPath(path), node.Line,
                                         node.Column, Msg("too many items")))
       ELSE c1

(* validateSequence, the item-count checks *)
checkItemCounts(node, sch, path, c) ==
    LET length == Len(node.Content)
        c1 == IF sch.MinItems # <<>> /\ length < sch.MinItems[1]
              THEN AddError(c, ValidationError(LevelError, cleanPath(path), node.Line,
                                               node.Column, Msg("too few items")))
              ELSE c
    IN IF sch.MaxItems # <<>> /\ length > sch.MaxItems[1]
       THEN AddError(c1, ValidationError(LevelError, cleanPath(path), node.Line,
                                         node.Column, Msg("too many items")))
       ELSE c1

-----------------------------------------------------------------------------
(* Source excerpts: renderLineWithCaret *)

tabWidth == 4

TabCh == "\t"
BadByte == "<bad byte>"
RuneError == "<U+FFFD>"

(* what utf8.DecodeRuneInString finds at a position of the line: a scalar of *)
(* size bytes, or a byte that is not valid UTF-8 (size 1)                    *)
Unit(ch, size) == [ch |-> ch, size |-> size]

RECURSIVE ByteLen(_)
(* len(line), in bytes *)
ByteLen(line) == IF line = <<>> THEN 0 ELSE Head(line).size + ByteLen(Tail(line))

(* strings.Repeat(" ", n) *)
Spaces(n) == [i \in 1..n |-> " "]

(* the expansion of a tab at the visual column, as if every tab were tabWidth wide *)
spacesToAddFixed(visual) == tabWidth

(* spacesToAdd := tabWidth - (visual % tabWidth) *)
spacesToAdd(visual) == tabWidth - (visual % tabWidth)

RECURSIVE renderLoop(_, _, _, _)
(* the loop of renderLineWithCaret from the scalar k on; st holds bytePos,  *)
(* visual, caretSet, visualCol and the string builder sb                    *)
renderLoop(line, k, byteCol, st) ==
    IF k > Len(line) THEN st
    ELSE LET st1 == IF ~st.caretSet /\ byteCol > 0 /\ (byteCol - 1) <= st.bytePos
                    THEN [st EXCEPT !.visualCol = st.visual + 1, !.caretSet = TRUE]
                    ELSE st
             r == IF line[k].ch = BadByte THEN RuneError ELSE line[k].ch
             st2 == IF r = TabCh
                    THEN [st1 EXCEPT !.sb = @ \o Spaces(spacesToAdd(st1.visual)),
                                     !.visual = @ + spacesToAdd(st1.visual)]
                    ELSE [st1 EXCEPT !.sb = Append(@, r), !.visual = @ + 1]
         IN renderLoop(line, k + 1, byteCol, [st2 EXCEPT !.bytePos = @ + line[k].size])

(* renderLineWithCaret: (rendered, visualCol, renderedLen) *)
renderLineWithCaret(line, byteCol) ==
    LET col == IF byteCol > ByteLen(line) + 1 THEN ByteLen(line) + 1 ELSE byteCol
        st == renderLoop(line, 1, col, [bytePos |-> 0, visual |-> 0, caretSet |-> FALSE,
                                        visualCol |-> 0, sb |-> <<>>])
    IN [rendered |-> st.sb,
        visualCol |-> IF ~st.caretSet /\ col > 0 THEN st.visual + 1 ELSE st.visualCol,
        renderedLen |-> st.visual]

-----------------------------------------------------------------------------
(* Source excerpts: ValidationResult *)

(* ErrorLevel.String *)
LevelString(l) == IF l = LevelWarning THEN "WARNING" ELSE "ERROR"

(* ValidationError.Error: the parts of "[%s] %s%s%s (path: %s)"; pos holds  *)
(* the numbers of "line %d:%d: " or "line %d: ", or nothing                 *)
ErrorString(e) ==
    [level |-> LevelString(e.Level),
     pos |-> IF e.Line > 0 THEN (IF e.Column > 0 THEN <<e.Line, e.Column>> ELSE <<e.Line>>)
             ELSE <<>>,
     message |-> e.Message,
     path |-> e.Path]

(* a line of the source excerpt: "  %4d | %s", "> %4d | %s" or "       | %s^" *)
ExcerptLine(mark, no, text) == [mark |-> mark, no |-> no, text |-> text]

(* FormatErrorWithSource: the header and the lines of the excerpt *)
FormatErrorWithSource(err, lines) ==
    IF err.Line <= 0 \/ err.Line > Len(lines)
    THEN [header |-> ErrorString(err), excerpt |-> <<>>]
    ELSE LET cur == renderLineWithCaret(lines[err.Line], err.Column)
             visualCol == IF cur.visualCol > cur.renderedLen + 1 THEN cur.renderedLen + 1
                          ELSE cur.visualCol
         IN [header |-> ErrorString(err),
             excerpt |->
               (IF err.Line - 1 > 0
                THEN <<ExcerptLine(" ", err.Line - 1,
                                   renderLineWithCaret(lines[err.Line - 1], 0).rendered)>>
                ELSE <<>>)
               \o <<ExcerptLine(">", err.Line, cur.rendered)>>
               \o (IF cur.visualCol > 0
                   THEN <<ExcerptLine("^", 0, Spaces(visualCol - 1))>>
                   ELSE <<>>)
               \o (IF err.Line < Len(lines)
                   THEN <<ExcerptLine(" ", err.Line + 1,
                                      renderLineWithCaret(lines[err.Line + 1], 0).rendered)>>
                   ELSE <<>>)]

(* the order of SortByPosition with the column compared before the line *)
lessColumnFirst(x, y) ==
    IF x.Column # y.Column THEN x.Column < y.Column
    ELSE IF x.Line # y.Line THEN x.Line < y.Line
    ELSE x.Level > y.Level

(* the less function SortByPosition and sortedAllByPosition hand to sort.Slice *)
less(x, y) ==
    IF x.Line # y.Line THEN x.Line < y.Line
    ELSE IF x.Column # y.Column THEN x.Column < y.Column
    ELSE x.Level > y.Level

(* sort.Slice sorts slices of up to maxInsertion elements by insertion *)
maxInsertion == 12

RECURSIVE insertLast(_, _)
(* the inner loop of the insertion sort: x moves left past every element it *)
(* is less than                                                             *)
insertLast(s, x) ==
    IF s = <<>> \/ ~less(x, s[Len(s)]) THEN Append(s, x)
    ELSE Append(insertLast(SubSeq(s, 1, Len(s) - 1), x), s[Len(s)])

RECURSIVE insertionSort(_)
insertionSort(s) ==
    IF s = <<>> THEN <<>>
    ELSE insertLast(insertionSort(SubSeq(s, 1, Len(s) - 1)), s[Len(s)])

(* the orders of a run of elements none of which is less than another *)
Perms(run) ==
    {[i \in DOMAIN run |-> run[f[i]]] :
       f \in {g \in [DOMAIN run -> DOMAIN run] : \A i, j \in DOMAIN run : i # j => g[i] # g[j]}}

(* the length of the run of equal elements at the head of a sorted list *)
RunLen(s) == Cardinality({i \in DOMAIN s : ~less(s[1], s[i])})

RECURSIVE TieOrders(_)
(* the sorted list with the elements of every run of equal elements in any order *)
TieOrders(s) ==
    IF s = <<>> THEN {<<>>}
    ELSE {p \o r : p \in Perms(SubSeq(s, 1, RunLen(s))),
                   r \in TieOrders(SubSeq(s, RunLen(s) + 1, Len(s)))}

(* sort.Slice: the orders in which it may leave the slice. It is not a      *)
(* stable sort: beyond maxInsertion elements equal elements may end up in   *)
(* any order.                                                               *)
sortSlice(all) ==
    IF Len(all) <= maxInsertion THEN {insertionSort(all)} ELSE TieOrders(insertionSort(all))

RECURSIVE addEach(_, _)
(* for _, err := range all { r.Collector.Add(err) } *)
addEach(c, all) == IF all = <<>> THEN c ELSE addEach(CollectorAdd(c, Head(all)), Tail(all))

(* ValidationResult.SortByPosition: the results it may leave, each with the *)
(* diagnostics it added to the new collector                                *)
sortByPosition(r) ==
    {[result |-> [r EXCEPT !.Collector = addEach(NewErrorCollector, all)], added |-> all] :
       all \in sortSlice(All(r.Collector))}

(* sortedAllByPosition returning the diagnostics as All gives them *)
sortedAllByPositionUnsorted(r) == {All(r.Collector)}

(* ValidationResult.sortedAllByPosition: the slices it may return *)
sortedAllByPosition(r) == sortSlice(All(r.Collector))

(* ValidationResult.FormatAll: the strings it may return, one formatted     *)
(* diagnostic after the other                                               *)
formatAll(r, sortByPos) ==
    {[i \in DOMAIN items |-> FormatErrorWithSource(items[i], r.SourceLines)] :
       items \in IF sortByPos THEN sortedAllByPosition(r) ELSE {All(r.Collector)}}

-----------------------------------------------------------------------------
(* The call stack *)

Frame(fn, at, node, schOpt, path) ==
    [fn |-> fn, pc |-> at, node |-> node, schema |-> schOpt, path |-> path,
     i |-> 1, pairs |-> <<>>, foundKeys |-> <<>>, keyNodes |-> <<>>]

Top == stack[Len(stack)]
Popped == SubSeq(stack, 1, Len(stack) - 1)
At(fn, at) == stack # <<>> /\ Top.fn = fn /\ Top.pc = at

(* the orders in which a range statement may visit the keys of a Go map *)
Orders(S) == {o \in [1..Cardinality(S) -> S] : \A a, b \in DOMAIN o : o[a] = o[b] => a = b}

-----------------------------------------------------------------------------
(* validateWithContext *)

(* decoder.Decode returns io.EOF *)
DecodeEOF ==
    /\ pc = "decode" /\ docIndex + 1 > Len(stream)
    /\ pc' = "done"
    /\ UNCHANGED <<ctx, schema, stream, anchors, docIndex, stack, calls, formatVars>>

(* decoder.Decode returns another error *)
DecodeError ==
    /\ pc = "decode" /\ docIndex + 1 <= Len(stream)
    /\ stream[docIndex + 1].err
    /\ ctx' = AddError(ctx, parseYAMLError(stream[docIndex + 1].msg, docIndex))
    /\ pc' = "done"
    /\ UNCHANGED <<schema, stream, anchors, docIndex, stack, calls, formatVars>>

(* the prefix given to the first document too *)
docPathEveryDocument(idx) == DocPrefix(idx)

(* the prefix validateWithContext gives the paths of document idx *)
docPath(idx) == IF idx > 0 THEN DocPrefix(idx) ELSE <<>>

(* decoder.Decode returns a document: its root node is validated *)
DecodeDocument ==
    /\ pc = "decode" /\ docIndex + 1 <= Len(stream)
    /\ ~stream[docIndex + 1].err
    /\ LET root == stream[docIndex + 1].root
       IN stack' = IF root.Kind = DocumentNode /\ Len(root.Content) > 0
                   THEN <<Frame("validateNode", "enter", root.Content[1], schema,
                                docPath(docIndex))>>
                   ELSE <<>>
    /\ pc' = "validate"
    /\ UNCHANGED <<ctx, schema, stream, anchors, docIndex, calls, formatVars>>

(* validateNode returned: docIndex++ and the test of ctx.IsStopped() *)
NextDocument ==
    /\ pc = "validate" /\ stack = <<>>
    /\ docIndex' = docIndex + 1
    /\ pc' = IF IsStopped(ctx) THEN "done" ELSE "decode"
    /\ UNCHANGED <<ctx, schema, stream, anchors, stack, calls, formatVars>>

-----------------------------------------------------------------------------
(* validateNode *)

ValidateNode ==
    /\ At("validateNode", "enter")
    /\ LET f == Top
           h == validateNodeHead(anchors, f.node, f.schema, f.path, ctx)
           self == [f EXCEPT !.pc = "validators", !.node = h.node, !.i = 1]
       IN /\ ctx' = h.ctx
          /\ stack' =
               IF ~h.go THEN Popped
               ELSE CASE h.node.Kind = MappingNode ->
                           Popped \o <<self,
                              Frame("expandMappingWithMerges", "enter", h.node, f.schema,
                                    f.path)>>
                      [] h.node.Kind = SequenceNode ->
                           Popped \o <<self,
                              Frame("validateSequence", "counts", h.node, f.schema, f.path)>>
                      [] OTHER -> Popped \o <<self>>
    /\ UNCHANGED <<schema, stream, anchors, docIndex, pc, calls, formatVars>>

(* one iteration of the loop over schema.Validators, or its end *)
RunValidator ==
    /\ At("validateNode", "validators")
    /\ LET f == Top
           vlds == f.schema[1].Validators
       IN IF f.i > Len(vlds) \/ IsStopped(ctx)
          THEN /\ stack' = Popped
               /\ ctx' = ctx
               /\ calls' = calls
          ELSE /\ ctx' = Validate(vlds[f.i], f.node, cleanPath(f.path), ctx)
               /\ stack' = Popped \o <<[f EXCEPT !.i = @ + 1]>>
               /\ calls' = Append(calls, Call("Validate", f.i, <<>>, cleanPath(f.path)))
    /\ UNCHANGED <<schema, stream, anchors, docIndex, pc, formatVars>>

-----------------------------------------------------------------------------
(* validateMapping *)

(* validateMapping calls expandMappingWithMerges: the pairs of the loop, or *)
(* the fatal error of a recursion that exhausts the stack                   *)
ExpandMerges ==
    /\ At("expandMappingWithMerges", "enter")
    /\ IF expandExhaustsStack(anchors, Top.node)
       THEN /\ pc' = "fatal"
            /\ stack' = <<>>
       ELSE /\ pc' = pc
            /\ stack' = Popped \o
                 <<[Frame("validateMapping", "pairs", Top.node, Top.schema, Top.path)
                      EXCEPT !.pairs = expandMappingWithMerges(anchors, Top.node)]>>
    /\ UNCHANGED <<ctx, schema, stream, anchors, docIndex, calls, formatVars>>

(* one iteration of the loop over the expanded pairs *)
MappingPair ==
    /\ At("validateMapping", "pairs")
    /\ Top.i <= Len(Top.pairs)
    /\ LET f == Top
           kv == f.pairs[f.i]
           r == validatePair(f.schema[1], kv, f.path, ctx)
           self == [f EXCEPT !.i = @ + 1,
                             !.foundKeys = (kv.key.Value :> kv.value) @@ @,
                             !.keyNodes = (kv.key.Value :> kv.key) @@ @]
       IN IF IsStopped(ctx)
          THEN /\ stack' = Popped
               /\ ctx' = ctx
               /\ calls' = calls
          ELSE /\ ctx' = r.ctx
               /\ stack' = IF r.call = <<>> THEN Popped \o <<self>>
                           ELSE Popped \o <<self,
                                  Frame("validateNode", "enter", r.call[1].node,
                                        r.call[1].schema, r.call[1].path)>>
               /\ calls' = calls \o r.calls
    /\ UNCHANGED <<schema, stream, anchors, docIndex, pc, formatVars>>

CheckRequiredFields ==
    /\ At("validateMapping", "pairs")
    /\ Top.i > Len(Top.pairs)
    /\ \E order \in Orders(DOMAIN Top.schema[1].AllowedKeys) :
          ctx' = checkRequiredFields(Top.node, Top.schema[1], Top.path, Top.foundKeys, ctx, order)
    /\ stack' = Popped \o <<[Top EXCEPT !.pc = "defaults"]>>
    /\ UNCHANGED <<schema, stream, anchors, docIndex, pc, calls, formatVars>>

CheckDefaults ==
    /\ At("validateMapping", "defaults")
    /\ \E order \in Orders(DOMAIN Top.schema[1].AllowedKeys) :
          ctx' = checkDefaults(Top.node, Top.schema[1], Top.path, Top.foundKeys, ctx, order)
    /\ stack' = Popped \o <<[Top EXCEPT !.pc = "anyOf"]>>
    /\ UNCHANGED <<schema, stream, anchors, docIndex, pc, calls, formatVars>>

CheckAnyOf ==
    /\ At("validateMapping", "anyOf")
    /\ ctx' = checkAnyOf(Top.node, Top.schema[1], Top.path, Top.foundKeys, ctx)
    /\ stack' = Popped \o <<[Top EXCEPT !.pc = "exactlyOneOf"]>>
    /\ UNCHANGED <<schema, stream, anchors, docIndex, pc, calls, formatVars>>

CheckExactlyOneOf ==
    /\ At("validateMapping", "exactlyOneOf")
    /\ ctx' = checkExactlyOneOf(Top.node, Top.schema[1], Top.path, Top.foundKeys,
                                Top.keyNodes, ctx)
    /\ stack' = Popped \o <<[Top EXCEPT !.pc = "mutuallyExclusive"]>>
    /\ UNCHANGED <<schema, stream, anchors, docIndex, pc, calls, formatVars>>

CheckMutuallyExclusive ==
    /\ At("validateMapping", "mutuallyExclusive")
    /\ ctx' = checkMutuallyExclusive(Top.node, Top.schema[1], Top.path, Top.foundKeys,
                                     Top.keyNodes, ctx)
    /\ stack' = Popped \o <<[Top EXCEPT !.pc = "conditions"]>>
    /\ UNCHANGED <<schema, stream, anchors, docIndex, pc, calls, formatVars>>

(* checkConditions, and the return of validateMapping *)
CheckConditions ==
    /\ At("validateMapping", "conditions")
    /\ ctx' = checkConditions(Top.node, Top.schema[1], Top.path, Top.foundKeys,
                              Top.keyNodes, ctx)
    /\ stack' = Popped
    /\ UNCHANGED <<schema, stream, anchors, docIndex, pc, calls, formatVars>>

-----------------------------------------------------------------------------
(* validateSequence *)

(* the item-count checks and the test of schema.ItemSchema *)
SequenceCounts ==
    /\ At("validateSequence", "counts")
    /\ ctx' = checkItemCounts(Top.node, Top.schema[1], Top.path, ctx)
    /\ stack' = IF Top.schema[1].ItemSchema = <<>> THEN Popped
                ELSE Popped \o <<[Top EXCEPT !.pc = "items", !.i = 1]>>
    /\ UNCHANGED <<schema, stream, anchors, docIndex, pc, calls, formatVars>>

(* one iteration of the loop over the items, or its end *)
SequenceItem ==
    /\ At("validateSequence", "items")
    /\ LET f == Top
       IN stack' = IF f.i > Len(f.node.Content) \/ IsStopped(ctx) THEN Popped
                   ELSE Popped \o <<[f EXCEPT !.i = @ + 1],
                          Frame("validateNode", "enter", f.node.Content[f.i],
                                f.schema[1].ItemSchema, itemPath(f.path, f.i - 1))>>
    /\ UNCHANGED <<ctx, schema, stream, anchors, docIndex, pc, calls, formatVars>>

-----------------------------------------------------------------------------
(* Bounds of the inputs *)

MaxDocs == 3
MaxPairs == 2
MaxList == 2
MaxGroups == 2
MaxSeqLen == 3
MaxLineLen == 3
MaxDiags == 3

(* the sequences over S of length at most n *)
BSeq(S, n) == UNION {[1..k -> S] : k \in 0..n}

-----------------------------------------------------------------------------
(* The inputs: documents, schemas and options, family by family.  Each     *)
(* family is the set of initial states it gives; schema is <<>> for a nil  *)
(* *FieldSchema.                                                            *)

kA == <<"a">>
kB == <<"b">>
kC == <<"c">>
kU == <<"u">>
kW == <<"w">>
kName == <<"n","a","m","e">>

Document(content) ==
    [Kind |-> DocumentNode, Tag |-> "", Value |-> <<>>, Line |-> 1, Column |-> 1,
     Content |-> content, Alias |-> ""]

Doc(root) == [err |-> FALSE, msg |-> <<>>, root |-> Document(<<root>>)]
EmptyDoc == [err |-> FALSE, msg |-> <<>>, root |-> Document(<<>>)]
ParseErr(msg) == [err |-> TRUE, msg |-> msg, root |-> Document(<<>>)]

(* no call of renderLineWithCaret, and no ValidationResult, in the making *)
IdleRender == [line |-> <<>>, byteCol |-> 0, returned |-> FALSE,
               rendered |-> <<>>, visualCol |-> 0, renderedLen |-> 0]
IdleResult == [Collector |-> NewErrorCollector, SourceLines |-> <<>>]

(* the state in which validateWithContext starts *)
Scenario(c, schOpt, docs, tbl) ==
    /\ ctx = c
    /\ schema = schOpt
    /\ stream = docs
    /\ anchors = tbl
    /\ docIndex = 0
    /\ pc = "decode"
    /\ stack = <<>>
    /\ calls = <<>>
    /\ render = IdleRender
    /\ result = IdleResult
    /\ pending = <<>>
    /\ adds = <<>>
    /\ output = <<>>

(* a block mapping of scalar pairs: the pair i on line i, the mapping where *)
(* its first key is *)
MakeMap(es) ==
    Mapping(Concat([i \in DOMAIN es |->
                      <<Scalar(StrTag, es[i].k, i, 1), Scalar(es[i].tag, es[i].v, i, 4)>>]),
            1, 1)

Entry(k, tag, v) == [k |-> k, tag |-> tag, v |-> v]

(* &loop [*loop]: a sequence that holds an alias of itself *)
LoopSeq == Sequence(<<AliasTo("loop", 16, 14)>>, 16, 7)

(* the targets of the aliases of the documents *)
AnchorTable ==
    [a \in {"int", "null", "m1", "m2", "loop"} |->
       CASE a = "int" -> Scalar(IntTag, <<"7">>, 9, 3)
         [] a = "loop" -> LoopSeq
         [] a = "null" -> Scalar(NullTag, <<"~">>, 9, 3)
         [] a = "m1" -> Mapping(<<Scalar(StrTag, kA, 11, 3), Scalar(IntTag, <<"1">>, 11, 6),
                                  Scalar(StrTag, kC, 12, 3), Scalar(IntTag, <<"2">>, 12, 6)>>,
                                11, 3)
         [] OTHER -> Mapping(<<Scalar("!!merge", MergeKey, 14, 3), AliasTo("m1", 14, 7),
                               Scalar(StrTag, kB, 15, 3), Scalar(IntTag, <<"3">>, 15, 6)>>,
                             14, 3)]

(* Family T: one root node against a schema of each type *)
ProbeValues ==
    {<<"4","2">>, <<"n","u","l","l">>, <<"N","u","l","l">>, <<"~">>, <<"a","b","c">>,
     <<"1",".","5">>, <<"1","e","3">>, <<"y","e","s">>, <<"T","r","u","e">>,
     <<"0","x","1","F">>, <<"0","o","1","7">>, <<"0","7","7","7">>, <<"-","5">>, <<>>,
     <<"+","-","5">>, <<"0","o","-","7">>, <<"0","x","1","_","F">>, <<"0","b","1","2">>,
     <<"+","0","B","1","0">>, <<"0","x">>, <<"-">>}

(* the words of YAML 1.1 booleans as yes or "yes" reads them, and near misses *)
BoolWordProbes ==
    {<<"y">>, <<"y","e","s">>, <<"t","r","u","e">>, <<"o","n">>, <<"n">>, <<"n","o">>,
     <<"f","a","l","s","e">>, <<"o","f","f">>, <<"O","N">>, <<"N","o">>, <<"F","a","l","s","e">>,
     <<"y","e","s","s">>, <<"o">>}

ProbeNodes ==
    {Scalar(StrTag, <<"h","i">>, 1, 1), Scalar(StrTag, <<"Y","e","s">>, 1, 1),
     Scalar(StrTag, <<>>, 1, 1), Scalar(IntTag, <<"4","2">>, 1, 1),
     Scalar(FloatTag, <<"3",".","1","4">>, 1, 1), Scalar(BoolTag, <<"t","r","u","e">>, 1, 1),
     Scalar(NullTag, <<>>, 1, 1), Scalar(NullTag, <<"n","u","l","l">>, 1, 1),
     Mapping(<<>>, 1, 1), Sequence(<<>>, 1, 1),
     AliasTo("int", 1, 1), AliasTo("null", 1, 1), AliasTo("", 1, 1)}
    \cup {Scalar("!custom", v, 1, 1) : v \in ProbeValues}
    \cup {Scalar(StrTag, v, 1, 1) : v \in BoolWordProbes}

ProbeSchemas ==
    {[FieldSchema EXCEPT !.Type = t, !.Nullable = n, !.Deprecated = d] :
        t \in NodeTypes, n \in BOOLEAN, d \in {"", "true", "use host"}}

ScenariosT ==
    \E sof \in BOOLEAN, st \in BOOLEAN, y11 \in BOOLEAN, sch \in ProbeSchemas, node \in ProbeNodes :
       Scenario(NewContext(FALSE, sof, st, y11), <<sch>>, <<Doc(node)>>, AnchorTable)

(* Family K: known and unknown keys of a map *)
KeyEntries == {Entry(kA, StrTag, <<"v">>), Entry(kU, IntTag, <<"1">>),
               Entry(kU, StrTag, <<"v">>), Entry(kW, IntTag, <<"2">>),
               Entry(kName, IntTag, <<"3">>)}

KeySchemas ==
    {[FieldSchema EXCEPT !.Type = TypeMap,
                         !.AllowedKeys = (kA :> OfType(TypeString)),
                         !.UnknownKeyPolicy = p,
                         !.AdditionalProperties = ap,
                         !.KeyValidators = kv] :
        p \in 0..4, ap \in {<<>>, <<OfType(TypeInt)>>},
        kv \in {<<>>, <<ForbiddenKeyValidator(<<kW>>)>>,
                 <<LengthKeyValidator(<<>>, <<1>>), ForbiddenKeyValidator(<<kW>>)>>}}

ScenariosK ==
    \E sk \in BOOLEAN, sof \in BOOLEAN, sch \in KeySchemas, es \in BSeq(KeyEntries, MaxPairs) :
       Scenario(NewContext(sk, sof, FALSE, FALSE), <<sch>>, <<Doc(MakeMap(es))>>, AnchorTable)

(* Family R: the inter-field rules over the keys a, b, c *)
RuleKeys == {kA, kB, kC}
RuleGroups == {<<kA>>, <<kA, kB>>, <<kB, kC>>, <<>>}

(* the key c is required or not *)
RuleBase(req) ==
    [FieldSchema EXCEPT !.Type = TypeMap,
                        !.AllowedKeys = [k \in RuleKeys |->
                                           [OfType(TypeAny) EXCEPT !.Required = (req /\ k = kC)]]]

RuleSchemas ==
    {[RuleBase(req) EXCEPT !.ExactlyOneOf = l] : l \in BSeq(RuleKeys, MaxList), req \in BOOLEAN}
    \cup {[RuleBase(req) EXCEPT !.MutuallyExclusive = l] :
             l \in BSeq(RuleKeys, MaxList), req \in BOOLEAN}
    \cup {[RuleBase(req) EXCEPT !.AnyOf = g] : g \in BSeq(RuleGroups, MaxGroups), req \in BOOLEAN}

(* a flow mapping {k: ~, ...} on line 2: the mapping at column 3, the key i *)
(* at column 6i - 2 and its value three columns on                          *)
RuleMap(ks) ==
    Mapping(Concat([i \in DOMAIN ks |->
                      <<Scalar(StrTag, ks[i], 2, 6 * i - 2), Scalar(NullTag, <<"~">>, 2, 6 * i + 1)>>]),
            2, 3)

ScenariosR ==
    \E sof \in BOOLEAN, sch \in RuleSchemas, ks \in BSeq(RuleKeys, MaxPairs) :
       Scenario(NewContext(FALSE, sof, FALSE, FALSE), <<sch>>, <<Doc(RuleMap(ks))>>, AnchorTable)

(* Family C: conditional rules on the value of the key a *)
ConditionalRule(field, value, required, forbidden) ==
    [ConditionField |-> field, ConditionValue |-> value,
     ThenRequired |-> required, ThenForbidden |-> forbidden]

CondLists == {<<>>, <<kB>>, <<kB, kC>>, <<kC, kC>>}

CondRules ==
    {<<ConditionalRule(kA, <<"7">>, req, forb)>> : req \in CondLists, forb \in CondLists}
    \cup {<<ConditionalRule(kA, <<"7">>, req, <<kB>>),
            ConditionalRule(kB, <<"~">>, <<kC>>, <<kA>>)>> : req \in CondLists}

CondSchemas == {[RuleBase(FALSE) EXCEPT !.Conditions = rs] : rs \in CondRules}

CondEntryKinds == {"a7", "a8", "amap", "aalias", "b", "c"}

(* the entry i of the map, on line i: a with the value 7, 8, {} or *int (an *)
(* alias of the scalar 7), or b or c with the value ~                       *)
CondEntry(kind, i) ==
    CASE kind = "a7" -> <<Scalar(StrTag, kA, i, 1), Scalar(IntTag, <<"7">>, i, 4)>>
      [] kind = "a8" -> <<Scalar(StrTag, kA, i, 1), Scalar(IntTag, <<"8">>, i, 4)>>
      [] kind = "amap" -> <<Scalar(StrTag, kA, i, 1), Mapping(<<>>, i, 4)>>
      [] kind = "aalias" -> <<Scalar(StrTag, kA, i, 1), AliasTo("int", i, 4)>>
      [] kind = "b" -> <<Scalar(StrTag, kB, i, 1), Scalar(NullTag, <<"~">>, i, 4)>>
      [] OTHER -> <<Scalar(StrTag, kC, i, 1), Scalar(NullTag, <<"~">>, i, 4)>>

CondMap(ks) == Mapping(Concat([i \in DOMAIN ks |-> CondEntry(ks[i], i)]), 1, 1)

ScenariosC ==
    \E sof \in BOOLEAN, sch \in CondSchemas, ks \in BSeq(CondEntryKinds, MaxPairs) :
       Scenario(NewContext(FALSE, sof, FALSE, FALSE), <<sch>>, <<Doc(CondMap(ks))>>, AnchorTable)

(* Family M: maps with merge keys; the entry i of a map is on line i *)
MergeEntryKinds == {"a", "b", "m1", "m2", "inline", "seq", "nil", "scalar", "loop"}

MergeKeyNode(i) == Scalar("!!merge", MergeKey, i, 1)

MergeEntry(kind, i) ==
    CASE kind = "a" -> <<Scalar(StrTag, kA, i, 1), Scalar(StrTag, <<"x">>, i, 4)>>
      [] kind = "b" -> <<Scalar(StrTag, kB, i, 1), Scalar(IntTag, <<"5">>, i, 4)>>
      [] kind = "m1" -> <<MergeKeyNode(i), AliasTo("m1", i, 5)>>
      [] kind = "m2" -> <<MergeKeyNode(i), AliasTo("m2", i, 5)>>
      [] kind = "inline" ->
           <<MergeKeyNode(i),
             Mapping(<<Scalar(StrTag, kB, i, 6), Scalar(IntTag, <<"8">>, i, 9),
                       Scalar(StrTag, kC, i, 12), Scalar(IntTag, <<"9">>, i, 15)>>, i, 5)>>
      [] kind = "seq" ->
           <<MergeKeyNode(i),
             Sequence(<<AliasTo("m1", i, 6),
                        Mapping(<<Scalar(StrTag, kA, i, 12), Scalar(IntTag, <<"6">>, i, 15),
                                  Scalar(StrTag, kB, i, 18), Scalar(IntTag, <<"4">>, i, 21)>>,
                                i, 11)>>, i, 5)>>
      [] kind = "nil" -> <<MergeKeyNode(i), AliasTo("", i, 5)>>
      [] kind = "loop" -> <<MergeKeyNode(i), LoopSeq>>
      [] OTHER -> <<MergeKeyNode(i), Scalar(StrTag, <<"x">>, i, 5)>>

MergeMap(ks) == Mapping(Concat([i \in DOMAIN ks |-> MergeEntry(ks[i], i)]), 1, 1)

MergeSchema ==
    [FieldSchema EXCEPT !.Type = TypeMap,
                        !.AllowedKeys = [k \in RuleKeys |->
                                           [OfType(TypeAny) EXCEPT !.Required = (k = kA)]],
                        !.UnknownKeyPolicy = UnknownKeyWarn]

ScenariosM ==
    \E ks \in BSeq(MergeEntryKinds, MaxPairs) :
       Scenario(NewContext(FALSE, FALSE, FALSE, FALSE), <<MergeSchema>>, <<Doc(MergeMap(ks))>>,
                AnchorTable)

(* Family Q: required keys and keys with a default; c is both *)
ReqFlags == {[Required |-> r, Default |-> d] : r \in BOOLEAN, d \in {<<>>, <<<<"d">>>>}}

ReqSchemas ==
    {[FieldSchema EXCEPT
        !.Type = TypeMap,
        !.AllowedKeys =
           [k \in RuleKeys |->
              CASE k = kA -> [OfType(TypeAny) EXCEPT !.Required = fa.Required,
                                                     !.Default = fa.Default]
                [] k = kB -> [OfType(TypeAny) EXCEPT !.Required = fb.Required,
                                                     !.Default = fb.Default]
                [] OTHER -> [OfType(TypeAny) EXCEPT !.Required = TRUE,
                                                    !.Default = <<<<"d">>>>]]] :
        fa \in ReqFlags, fb \in ReqFlags}

ReqEntryKinds == {"anull", "b", "c", "m1", "m2"}

(* the entry i of the map, on line i: a with a null value, b, c, or a merge *)
(* key with an alias of {a, c} or of {<<: {a, c}, b}                        *)
ReqEntry(kind, i) ==
    CASE kind = "anull" -> <<Scalar(StrTag, kA, i, 1), Scalar(NullTag, <<>>, i, 3)>>
      [] kind = "b" -> <<Scalar(StrTag, kB, i, 1), Scalar(StrTag, <<"x">>, i, 4)>>
      [] kind = "c" -> <<Scalar(StrTag, kC, i, 1), Scalar(IntTag, <<"1">>, i, 4)>>
      [] kind = "m1" -> <<MergeKeyNode(i), AliasTo("m1", i, 5)>>
      [] OTHER -> <<MergeKeyNode(i), AliasTo("m2", i, 5)>>

ReqMap(ks) == Mapping(Concat([i \in DOMAIN ks |-> ReqEntry(ks[i], i)]), 1, 1)

ScenariosQ ==
    \E sof \in BOOLEAN, sch \in ReqSchemas, ks \in BSeq(ReqEntryKinds, MaxPairs) :
       Scenario(NewContext(FALSE, sof, FALSE, FALSE), <<sch>>, <<Doc(ReqMap(ks))>>, AnchorTable)

(* Family S: sequences of integers and strings against item-count limits *)
SeqItems == {Entry(<<>>, IntTag, <<"1">>), Entry(<<>>, StrTag, <<"x">>)}
ItemLimits == {<<>>, <<0>>, <<1>>, <<2>>}

SeqSchemas ==
    {[FieldSchema EXCEPT !.Type = TypeSequence, !.MinItems = lo, !.MaxItems = hi,
                         !.ItemSchema = it] :
        lo \in ItemLimits, hi \in ItemLimits, it \in {<<>>, <<OfType(TypeInt)>>}}

(* a block sequence: the item i on line i *)
MakeSeq(es) == Sequence([i \in DOMAIN es |-> Scalar(es[i].tag, es[i].v, i, 3)], 1, 1)

ScenariosS ==
    \E sof \in BOOLEAN, sch \in SeqSchemas, es \in BSeq(SeqItems, MaxSeqLen) :
       Scenario(NewContext(FALSE, sof, FALSE, FALSE), <<sch>>, <<Doc(MakeSeq(es))>>, AnchorTable)

(* Family L: values of several lengths against a LengthValidator *)
Privet == <<"<U+043F>", "<U+0440>", "<U+0438>", "<U+0432>", "<U+0435>", "<U+0442>">>

LengthNodes ==
    {Scalar(StrTag, Privet, 1, 1), Scalar(StrTag, <<"a","b","c","d","e","f">>, 1, 1),
     Scalar(StrTag, <<"<U+043F>">>, 1, 1), Scalar(StrTag, <<"a","b">>, 1, 1),
     Scalar(StrTag, <<>>, 1, 1),
     Sequence(<<Scalar(StrTag, <<"a">>, 1, 3), Scalar(StrTag, <<"b">>, 2, 3)>>, 1, 1),
     MakeMap(<<Entry(kA, StrTag, <<"v">>)>>)}

LengthLimits == {<<>>, <<1>>, <<2>>, <<6>>}

LengthSchemas ==
    {[OfType(t) EXCEPT !.Validators = <<LengthValidator(lo, hi)>> \o more, !.Deprecated = d] :
        t \in {TypeAny, TypeString}, lo \in LengthLimits, hi \in LengthLimits,
        more \in {<<>>, <<NonEmptyValidator>>}, d \in {"", "use host"}}

ScenariosL ==
    \E sof \in BOOLEAN, sch \in LengthSchemas, node \in LengthNodes :
       Scenario(NewContext(FALSE, sof, FALSE, FALSE), <<sch>>, <<Doc(node)>>, AnchorTable)

(* Family D: streams of several documents with roots of every kind *)
ParseMsgs ==
    {<<Tok("text"), Tok("line"), Num(3), Tok("colon"), Tok("space"), Tok("text")>>,
     <<Tok("text"), Tok("line"), Num(3), Tok("colon"), Tok("space"), Tok("column"), Num(5)>>,
     <<Tok("line"), Num(2), Tok("colon"), Tok("column"), Num(4), Tok("text")>>,
     <<Tok("line"), Num(1), Tok("colon"), Tok("text"), Tok("line"), Num(2), Tok("colon"),
       Tok("space"), Tok("space"), Tok("column"), Num(9)>>,
     <<Tok("line"), Num(4), Tok("text")>>,
     <<Tok("text")>>,
     <<>>}

DocKinds ==
    {Doc(MakeMap(<<Entry(kU, IntTag, <<"1">>)>>)),
     Doc(MakeMap(<<Entry(kName, StrTag, <<"x">>)>>)),
     Doc(Sequence(<<Scalar(IntTag, <<"1">>, 1, 3), Scalar(StrTag, <<"x">>, 2, 3)>>, 1, 1)),
     Doc(Scalar(StrTag, <<>>, 1, 1)),
     ParseErr(<<Tok("text"), Tok("line"), Num(3), Tok("colon"), Tok("space"), Tok("text")>>),
     EmptyDoc}

PolySchema ==
    [FieldSchema EXCEPT !.AllowedKeys = (kName :> [OfType(TypeString) EXCEPT !.Required = TRUE]),
                        !.UnknownKeyPolicy = UnknownKeyWarn,
                        !.ItemSchema = <<OfType(TypeInt)>>,
                        !.Validators = <<NonEmptyValidator>>]

DocSchemas == {PolySchema, [PolySchema EXCEPT !.Type = TypeMap]}

ScenariosD ==
    \E sof \in BOOLEAN, sch \in DocSchemas, docs \in BSeq(DocKinds, MaxDocs) :
       Scenario(NewContext(FALSE, sof, FALSE, FALSE), <<sch>>, docs, AnchorTable)

(* Family P: the messages of a decoding error, after zero or one document *)
ScenariosP ==
    \E sof \in BOOLEAN, m \in ParseMsgs,
       pre \in {<<>>, <<Doc(MakeMap(<<Entry(kU, IntTag, <<"1">>)>>))>>} :
       Scenario(NewContext(FALSE, sof, FALSE, FALSE), <<PolySchema>>, pre \o <<ParseErr(m)>>,
                AnchorTable)

(* Family N: a validator built with a nil schema *)
ScenariosN ==
    Scenario(NewContext(FALSE, FALSE, FALSE, FALSE), <<>>, <<Doc(Scalar(StrTag, <<>>, 1, 1))>>,
             AnchorTable)

-----------------------------------------------------------------------------
(* The specification *)

Init ==
    \/ ScenariosT
    \/ ScenariosK
    \/ ScenariosR
    \/ ScenariosC
    \/ ScenariosQ
    \/ ScenariosS
    \/ ScenariosL
    \/ ScenariosM
    \/ ScenariosD
    \/ ScenariosP
    \/ ScenariosN

Next ==
    \/ DecodeEOF
    \/ DecodeError
    \/ DecodeDocument
    \/ NextDocument
    \/ ValidateNode
    \/ RunValidator
    \/ ExpandMerges
    \/ MappingPair
    \/ CheckRequiredFields
    \/ CheckDefaults
    \/ CheckAnyOf
    \/ CheckExactlyOneOf
    \/ CheckMutuallyExclusive
    \/ CheckConditions
    \/ SequenceCounts
    \/ SequenceItem

Spec == Init /\ [][Next]_vars

-----------------------------------------------------------------------------
(* renderLineWithCaret applied to lines of every make-up *)

(* no validation under way *)
NoValidation(at) ==
    /\ ctx = NewContext(FALSE, FALSE, FALSE, FALSE)
    /\ schema = <<>>
    /\ stream = <<>>
    /\ anchors = AnchorTable
    /\ docIndex = 0
    /\ pc = at
    /\ stack = <<>>
    /\ calls = <<>>

(* a letter, a tab, scalars of two and of four bytes, a byte that is not UTF-8 *)
Units == {Unit("a", 1), Unit(TabCh, 1), Unit("<e acute>", 2), Unit("<party popper>", 4),
          Unit(BadByte, 1)}

(* the lines "ab<TAB>cd" and "hello <party popper> world" *)
LineAbTabCd == <<Unit("a", 1), Unit("b", 1), Unit(TabCh, 1), Unit("c", 1), Unit("d", 1)>>
LineEmoji ==
    [i \in 1..6 |-> Unit(<<"h", "e", "l", "l", "o", " ">>[i], 1)]
    \o <<Unit("<party popper>", 4)>>
    \o [i \in 1..6 |-> Unit(<<" ", "w", "o", "r", "l", "d">>[i], 1)]

RenderLines == BSeq(Units, MaxLineLen) \cup {LineAbTabCd, LineEmoji}

InitRender ==
    /\ NoValidation("render")
    /\ \E line \in RenderLines : \E byteCol \in (-1)..(ByteLen(line) + 3) :
          render = [IdleRender EXCEPT !.line = line, !.byteCol = byteCol]
    /\ result = IdleResult
    /\ pending = <<>>
    /\ adds = <<>>
    /\ output = <<>>

(* RenderLineWithCaret *)
RenderLineWithCaret ==
    /\ pc = "render"
    /\ ~render.returned
    /\ LET r == renderLineWithCaret(render.line, render.byteCol)
       IN render' = [render EXCEPT !.returned = TRUE, !.rendered = r.rendered,
                                   !.visualCol = r.visualCol, !.renderedLen = r.renderedLen]
    /\ UNCHANGED <<ctx, schema, stream, anchors, docIndex, pc, stack, calls,
                   result, pending, adds, output>>

NextRender == RenderLineWithCaret

SpecRender == InitRender /\ [][NextRender]_vars

-----------------------------------------------------------------------------
(* A ValidationResult filled by Add, sorted and formatted in any order *)

(* a diagnostic about the field named tag *)
Diag(level, line, col, tag) ==
    ValidationError(level, <<KeyTok(<<tag>>)>>, line, col, Msg("invalid value"))

(* two Errors and a Warning at 1:2, a Warning before them, an Error and a   *)
(* Warning on the next line                                                 *)
Diags ==
    {Diag(LevelError, 1, 2, "a"), Diag(LevelError, 1, 2, "b"), Diag(LevelWarning, 1, 2, "a"),
     Diag(LevelWarning, 1, 1, "a"), Diag(LevelError, 2, 1, "a"), Diag(LevelWarning, 2, 1, "a")}

(* thirteen diagnostics: one at every position of two lines and three       *)
(* columns for either level, and a second Error at 1:2                      *)
ManyDiags ==
    <<Diag(LevelError, 2, 3, "a"), Diag(LevelWarning, 1, 1, "a"), Diag(LevelError, 1, 2, "a"),
      Diag(LevelWarning, 2, 2, "a"), Diag(LevelError, 2, 1, "a"), Diag(LevelWarning, 1, 3, "a"),
      Diag(LevelError, 1, 1, "a"), Diag(LevelWarning, 2, 3, "a"), Diag(LevelError, 1, 3, "a"),
      Diag(LevelWarning, 1, 2, "a"), Diag(LevelError, 2, 2, "a"), Diag(LevelError, 1, 2, "b"),
      Diag(LevelWarning, 2, 1, "a")>>

(* the lines "a<TAB>b" and "c" *)
SourceLines == <<<<Unit("a", 1), Unit(TabCh, 1), Unit("b", 1)>>, <<Unit("c", 1)>>>>

ResultPcs == {"NewErrorCollector", "Add", "SortByPosition", "FormatAll(true)", "FormatAll(false)"}

InitResult ==
    /\ NoValidation("NewErrorCollector")
    /\ render = IdleRender
    /\ result = [Collector |-> NewErrorCollector, SourceLines |-> SourceLines]
    /\ pending \in BSeq(Diags, MaxDiags) \cup {ManyDiags}
    /\ adds = <<>>
    /\ output = <<>>

(* result.Collector.Add(err) *)
Add ==
    /\ pc \in ResultPcs
    /\ pending # <<>>
    /\ result' = [result EXCEPT !.Collector = CollectorAdd(@, Head(pending))]
    /\ adds' = Append(adds, Head(pending))
    /\ pending' = Tail(pending)
    /\ pc' = "Add"
    /\ UNCHANGED <<ctx, schema, stream, anchors, docIndex, stack, calls, render, output>>

(* result.SortByPosition(): a new collector, to which the sorted            *)
(* diagnostics are added                                                    *)
SortByPosition ==
    /\ pc \in ResultPcs
    /\ \E r \in sortByPosition(result) :
          /\ result' = r.result
          /\ adds' = r.added
    /\ pc' = "SortByPosition"
    /\ UNCHANGED <<ctx, schema, stream, anchors, docIndex, stack, calls, render, pending, output>>

(* result.FormatAll(sortByPos) *)
FormatAll ==
    /\ pc \in ResultPcs
    /\ \E sortByPos \in BOOLEAN :
          /\ output' \in formatAll(result, sortByPos)
          /\ pc' = IF sortByPos THEN "FormatAll(true)" ELSE "FormatAll(false)"
    /\ UNCHANGED <<ctx, schema, stream, anchors, docIndex, stack, calls, render, result,
                   pending, adds>>

NextResult ==
    \/ Add
    \/ SortByPosition
    \/ FormatAll

SpecResult == InitResult /\ [][NextResult]_vars

-----------------------------------------------------------------------------
(* The vocabulary of the properties *)

Errors == ctx.collector.errors
Warnings == ctx.collector.warnings

(* the diagnostics a step appends to the collector *)
NewErrors ==
    SubSeq(ctx'.collector.errors, Len(ctx.collector.errors) + 1, Len(ctx'.collector.errors))
NewWarnings ==
    SubSeq(ctx'.collector.warnings, Len(ctx.collector.warnings) + 1, Len(ctx'.collector.warnings))

(* the step appends exactly one Error, with these words *)
OneNewError(text) ==
    /\ Len(NewErrors) = 1
    /\ NewErrors[1].Level = LevelError
    /\ NewErrors[1].Message.text = text

(* the step appends exactly one Error, at this position *)
OneNewErrorAt(line, col) ==
    /\ Len(NewErrors) = 1
    /\ NewErrors[1].Level = LevelError
    /\ NewErrors[1].Line = line
    /\ NewErrors[1].Column = col

(* validateNode is entered with a schema, a context that has not stopped    *)
(* and a node that is not an unresolved alias: its type check runs          *)
TypeChecked ==
    /\ At("validateNode", "enter")
    /\ Top.schema # <<>>
    /\ ~ctx.stopped
    /\ ~(Top.node.Kind = AliasNode /\ ~HasAlias(anchors, Top.node))

ExpectedType == Top.schema[1].Type
ActualType == inferType(anchors, Top.node, ctx)

-----------------------------------------------------------------------------
(* C1: with StopOnFirst the first Error sets the stopped flag and every     *)
(* later AddError leaves the collector unchanged, so that a run holds at    *)
(* most one Error and nothing added after it, and no further document is    *)
(* decoded once the context has stopped; without StopOnFirst the flag never *)
(* becomes true, and a step that adds no Error never sets it.               *)
C1_StopOnFirst ==
    /\ [](ctx.StopOnFirst => Len(Errors) <= 1)
    /\ [](ctx.StopOnFirst /\ Len(Errors) = 1 => ctx.stopped)
    /\ [](~ctx.StopOnFirst => ~ctx.stopped)
    /\ [](ctx.stopped => pc # "decode")
    /\ [][/\ ctx.stopped => ctx'.collector = ctx.collector /\ ctx'.stopped
          /\ ~ctx.stopped /\ ctx'.stopped => Len(NewErrors) = 1
          /\ ctx.stopped => ~(pc = "decode" /\ pc' = "validate")]_vars

(* a run that stopped at its one Error, after a Warning, with documents of  *)
(* the stream left undecoded                                                *)
C1_Witness ==
    /\ ctx.StopOnFirst /\ ctx.stopped
    /\ pc = "done"
    /\ docIndex < Len(stream)
    /\ Len(Errors) = 1
    /\ Len(Warnings) >= 1

-----------------------------------------------------------------------------
(* C2, as stated: for every schema with Nullable = false and Type other     *)
(* than TypeNull, validating a node inferred as Null (validateNode running  *)
(* its type check) adds one 'unexpected null value' Error; with             *)
(* Nullable = true or Type = TypeNull it adds none.                         *)
C2_AsStated ==
    [][TypeChecked /\ ActualType = TypeNull =>
         IF ~Top.schema[1].Nullable /\ ExpectedType # TypeNull
         THEN OneNewError("unexpected null value")
         ELSE NewErrors = <<>>]_vars

(* C2, amended: for every schema with Nullable = false and Type other than  *)
(* TypeNull and TypeAny, validating a node inferred as Null (validateNode   *)
(* running its type check) adds one 'unexpected null value' Error; with     *)
(* Nullable = true, Type = TypeNull or Type = TypeAny it adds none.         *)
C2_NullUnlessNullable ==
    [][TypeChecked /\ ActualType = TypeNull =>
         IF ~Top.schema[1].Nullable /\ ExpectedType \notin {TypeNull, TypeAny}
         THEN OneNewError("unexpected null value")
         ELSE NewErrors = <<>>]_vars

(* a null under a String schema that is not nullable was reported *)
C2_Witness ==
    /\ pc = "done"
    /\ schema # <<>> /\ schema[1].Type = TypeString /\ ~schema[1].Nullable
    /\ Len(stream) = 1 /\ ~stream[1].err /\ stream[1].root.Content # <<>>
    /\ inferType(anchors, stream[1].root.Content[1], ctx) = TypeNull
    /\ Len(Errors) = 1 /\ Errors[1].Message.text = "unexpected null value"

-----------------------------------------------------------------------------
(* C3: when validateNode runs its type check, a Float schema accepts a node *)
(* inferred as Int with no Error; an Int schema given a node inferred as    *)
(* Float adds exactly one 'type mismatch' Error; every other pair of        *)
(* distinct types, the inferred one not Null and the expected one not       *)
(* TypeAny, adds exactly one 'type mismatch' Error.                         *)
C3_OneWayCoercion ==
    [][TypeChecked /\ ActualType # TypeNull /\ ExpectedType # TypeAny =>
         /\ ExpectedType = TypeFloat /\ ActualType = TypeInt => NewErrors = <<>>
         /\ ExpectedType = TypeInt /\ ActualType = TypeFloat => OneNewError("type mismatch")
         /\ ExpectedType # ActualType /\ <<ExpectedType, ActualType>> # <<TypeFloat, TypeInt>>
               => OneNewError("type mismatch")]_vars

(* an Int node passed a Float schema *)
C3_Witness ==
    /\ pc = "done"
    /\ schema # <<>> /\ schema[1].Type = TypeFloat
    /\ Len(stream) = 1 /\ ~stream[1].err /\ stream[1].root.Content # <<>>
    /\ stream[1].root.Content[1].Kind = ScalarNode
    /\ inferType(anchors, stream[1].root.Content[1], ctx) = TypeInt
    /\ Errors = <<>>

-----------------------------------------------------------------------------
(* the positions of appended whose key does not occur again further on *)
LastOccurrences(appended) ==
    {i \in DOMAIN appended :
       \A j \in (i + 1)..Len(appended) : appended[j].key.Value # appended[i].key.Value}

-----------------------------------------------------------------------------
(* the 'unknown key' diagnostics among diags *)
UnknownKeyDiags(diags) == SelectSeq(diags, LAMBDA e : e.Message.text = "unknown key")

(* an iteration of validateMapping's loop runs on a key absent from         *)
(* AllowedKeys                                                              *)
UnknownKeyStep ==
    /\ At("validateMapping", "pairs")
    /\ Top.i <= Len(Top.pairs)
    /\ ~ctx.stopped
    /\ Top.pairs[Top.i].key.Value \notin DOMAIN Top.schema[1].AllowedKeys

(* a key validator of the iteration stopped the context before the report *)
StoppedByKeyValidator ==
    ctx.StopOnFirst /\ \E j \in DOMAIN NewErrors : NewErrors[j].Message.text # "unknown key"

(* C5: for a key absent from AllowedKeys, if AdditionalProperties is set    *)
(* the value is validated against it and no 'unknown key' diagnostic is     *)
(* added whatever the policy or StrictKeys; otherwise, in a context that    *)
(* has not stopped, exactly one is added for UnknownKeyError (an Error),    *)
(* UnknownKeyWarn (a Warning) and UnknownKeyInherit (an Error if            *)
(* StrictKeys, else a Warning), and none for UnknownKeyIgnore.              *)
C5_UnknownKeyRouting ==
    [][UnknownKeyStep =>
         LET sch == Top.schema[1]
             kv == Top.pairs[Top.i]
             errs == UnknownKeyDiags(NewErrors)
             warns == UnknownKeyDiags(NewWarnings)
             oneError == Len(errs) = 1 /\ errs[1].Level = LevelError /\ warns = <<>>
             oneWarning == Len(warns) = 1 /\ warns[1].Level = LevelWarning /\ errs = <<>>
         IN IF sch.AdditionalProperties # <<>>
            THEN /\ errs = <<>> /\ warns = <<>>
                 /\ stack'[Len(stack')].fn = "validateNode"
                 /\ stack'[Len(stack')].pc = "enter"
                 /\ stack'[Len(stack')].node = kv.value
                 /\ stack'[Len(stack')].schema = sch.AdditionalProperties
            ELSE ~StoppedByKeyValidator =>
                 CASE sch.UnknownKeyPolicy = UnknownKeyError -> oneError
                   [] sch.UnknownKeyPolicy = UnknownKeyWarn -> oneWarning
                   [] sch.UnknownKeyPolicy = UnknownKeyInherit ->
                        IF ctx.StrictKeys THEN oneError ELSE oneWarning
                   [] sch.UnknownKeyPolicy = UnknownKeyIgnore -> errs = <<>> /\ warns = <<>>
                   [] OTHER -> TRUE]_vars

(* Inherit with StrictKeys: the run over a map with one undeclared key      *)
(* ended with exactly one Error and no Warning                              *)
C5_Witness ==
    /\ pc = "done"
    /\ ctx.StrictKeys
    /\ schema # <<>>
    /\ schema[1].UnknownKeyPolicy = UnknownKeyInherit
    /\ schema[1].AdditionalProperties = <<>>
    /\ schema[1].KeyValidators = <<>>
    /\ Len(Errors) = 1 /\ Errors[1].Message.text = "unknown key"
    /\ Warnings = <<>>

-----------------------------------------------------------------------------
(* the paths the convention of the spec allows in document i *)
PathAsStated(path, i) ==
    IF i = 0 THEN path = <<>> \/ path[1].t # "doc"
    ELSE \/ path = <<[t |-> "doc", k |-> <<>>, n |-> i]>>
         \/ /\ Len(path) >= 2
            /\ path[1] = [t |-> "doc", k |-> <<>>, n |-> i]
            /\ path[2].t = "dot"

(* the same, with the path of an item of a root sequence: doc[i][k] *)
PathAsBuilt(path, i) ==
    \/ PathAsStated(path, i)
    \/ /\ i >= 1
       /\ Len(path) >= 2
       /\ path[1] = [t |-> "doc", k |-> <<>>, n |-> i]
       /\ path[2].t = "idx"

(* C6, as stated: no diagnostic of the validation of the first document has *)
(* a document prefix, and every diagnostic of the validation of document    *)
(* i >= 1 has a path that is doc[i] or begins with doc[i]. whatever the     *)
(* kind of the root node.                                                   *)
C6_AsStated ==
    [][pc = "validate" =>
         /\ \A j \in DOMAIN NewErrors : PathAsStated(NewErrors[j].Path, docIndex)
         /\ \A j \in DOMAIN NewWarnings : PathAsStated(NewWarnings[j].Path, docIndex)]_vars

(* C6, amended: no diagnostic of the validation of the first document has a *)
(* document prefix, and every diagnostic of the validation of document      *)
(* i >= 1 has a path that is doc[i] or begins with doc[i]. or, under a root *)
(* sequence, with doc[i][.                                                  *)
C6_DocumentPrefix ==
    [][pc = "validate" =>
         /\ \A j \in DOMAIN NewErrors : PathAsBuilt(NewErrors[j].Path, docIndex)
         /\ \A j \in DOMAIN NewWarnings : PathAsBuilt(NewWarnings[j].Path, docIndex)]_vars

(* an item of the root sequence of the second document was reported, after  *)
(* a diagnostic of the first document                                       *)
C6_Witness ==
    /\ \E j \in DOMAIN Errors :
          /\ Len(Errors[j].Path) = 2
          /\ Errors[j].Path[1] = [t |-> "doc", k |-> <<>>, n |-> 1]
          /\ Errors[j].Path[2].t = "idx"
    /\ \E j \in DOMAIN Warnings : Warnings[j].Path[1].t = "key"

-----------------------------------------------------------------------------
(* decoder.Decode fails with a parse error on the document docIndex *)
ParseErrorStep ==
    /\ pc = "decode"
    /\ docIndex + 1 <= Len(stream)
    /\ stream[docIndex + 1].err

(* the line and column that the message gives: those of its first           *)
(* `line N: column M`, else the line of its first `line N:` and column 0,   *)
(* else 0 and 0                                                             *)
MessagePosition(msg) ==
    LET both == {i \in DOMAIN msg : \E j \in DOMAIN msg : LineColReAt(msg, i, j)}
        only == {i \in DOMAIN msg : LineReAt(msg, i)}
        least(S) == CHOOSE i \in S : \A k \in S : i <= k
    IN IF both # {}
       THEN [line |-> msg[least(both) + 1].n,
             col |-> msg[CHOOSE j \in DOMAIN msg : LineColReAt(msg, least(both), j)].n]
       ELSE IF only # {} THEN [line |-> msg[least(only) + 1].n, col |-> 0]
       ELSE [line |-> 0, col |-> 0]

(* C7: when decoding document k fails with a parse error, exactly one Error *)
(* of path doc[k] is added, its line and column those of the message (0     *)
(* when the message gives none), the diagnostics collected before are kept, *)
(* and the run is over: no step follows, so no later document is decoded.   *)
C7_ParseErrorEndsRun ==
    [][/\ ParseErrorStep =>
            /\ OneNewError("parse error")
            /\ NewWarnings = <<>>
            /\ NewErrors[1].Path = <<[t |-> "doc", k |-> <<>>, n |-> docIndex]>>
            /\ NewErrors[1].Line = MessagePosition(stream[docIndex + 1].msg).line
            /\ NewErrors[1].Column = MessagePosition(stream[docIndex + 1].msg).col
            /\ SubSeq(ctx'.collector.errors, 1, Len(Errors)) = Errors
            /\ ctx'.collector.warnings = Warnings
            /\ pc' = "done"
            /\ docIndex' = docIndex
       /\ pc = "done" => UNCHANGED vars]_vars

(* the second document of a stream of three failed to parse: the run ended  *)
(* on its Error, after the diagnostics of the first document                *)
C7_Witness ==
    /\ pc = "done"
    /\ docIndex = 1
    /\ Len(stream) = 3
    /\ stream[2].err
    /\ Len(Errors) >= 2
    /\ Errors[Len(Errors)].Message.text = "parse error"
    /\ Errors[Len(Errors)].Path = <<[t |-> "doc", k |-> <<>>, n |-> 1]>>
    /\ Errors[Len(Errors)].Line = 3
    /\ Len(Warnings) >= 1

-----------------------------------------------------------------------------
(* validateMapping is at this check, all pairs of the map visited, in a     *)
(* context that has not stopped                                             *)
RuleStep(at) == At("validateMapping", at) /\ ~ctx.stopped

(* the key is present in the map under validation *)
PresentInMap(key) == \E j \in DOMAIN Top.pairs : Top.pairs[j].key.Value = key

(* the key node of a present key *)
KeyNodeOf(key) == Top.pairs[CHOOSE j \in DOMAIN Top.pairs : Top.pairs[j].key.Value = key].key

(* the listed keys that are present, in the order of the list *)
Matched(list) == SelectSeq(list, PresentInMap)

(* C8: ExactlyOneOf over a map, checked in a context that has not stopped:   *)
(* none of the listed keys present adds exactly one Error at the position   *)
(* of the map; exactly one present adds no Error; two or more present add   *)
(* exactly one Error at the key node of the second matched key (the second  *)
(* entry of the list that is present; an entry listed twice matches twice). *)
C8_ExactlyOneOf ==
    [][RuleStep("exactlyOneOf") /\ Top.schema[1].ExactlyOneOf # <<>> =>
         LET matched == Matched(Top.schema[1].ExactlyOneOf)
         IN CASE Len(matched) = 0 -> OneNewErrorAt(Top.node.Line, Top.node.Column)
              [] Len(matched) = 1 -> NewErrors = <<>>
              [] OTHER -> OneNewErrorAt(KeyNodeOf(matched[2]).Line,
                                        KeyNodeOf(matched[2]).Column)]_vars

(* ExactlyOneOf = [b, a] over {a: ~, b: ~}: the one Error of the run is at  *)
(* the key a, matched second                                                *)
C8_Witness ==
    /\ pc = "done"
    /\ schema # <<>> /\ schema[1].ExactlyOneOf = <<kB, kA>>
    /\ Len(stream) = 1 /\ stream[1].root.Content # <<>>
    /\ Len(stream[1].root.Content[1].Content) = 4
    /\ stream[1].root.Content[1].Content[1].Value = kA
    /\ stream[1].root.Content[1].Content[3].Value = kB
    /\ Len(Errors) = 1
    /\ Errors[1].Message.text = "exactly one is required, found several"
    /\ Errors[1].Line = stream[1].root.Content[1].Content[1].Line
    /\ Errors[1].Column = stream[1].root.Content[1].Content[1].Column

-----------------------------------------------------------------------------
(* C9: MutuallyExclusive over a map, checked in a context that has not      *)
(* stopped: zero or one of the listed keys present adds no Error; more than *)
(* one present adds exactly one Error, at the key node of the second        *)
(* matched key (the second entry of the list that is present).              *)
C9_MutuallyExclusive ==
    [][RuleStep("mutuallyExclusive") /\ Top.schema[1].MutuallyExclusive # <<>> =>
         LET matched == Matched(Top.schema[1].MutuallyExclusive)
         IN IF Len(matched) <= 1 THEN NewErrors = <<>>
            ELSE OneNewErrorAt(KeyNodeOf(matched[2]).Line, KeyNodeOf(matched[2]).Column)]_vars

(* MutuallyExclusive = [a, b] over {a: ~, b: ~}: the one Error of the run   *)
(* is at the key b                                                          *)
C9_Witness ==
    /\ pc = "done"
    /\ schema # <<>> /\ schema[1].MutuallyExclusive = <<kA, kB>>
    /\ Len(stream) = 1 /\ stream[1].root.Content # <<>>
    /\ Len(stream[1].root.Content[1].Content) = 4
    /\ stream[1].root.Content[1].Content[1].Value = kA
    /\ stream[1].root.Content[1].Content[3].Value = kB
    /\ Len(Errors) = 1
    /\ Errors[1].Message.text = "fields are mutually exclusive"
    /\ Errors[1].Line = stream[1].root.Content[1].Content[3].Line
    /\ Errors[1].Column = stream[1].root.Content[1].Content[3].Column

-----------------------------------------------------------------------------
(* C10: AnyOf over a map, the list of groups not empty, checked in a        *)
(* context that has not stopped: the check adds no Error if and only if     *)
(* some group has all of its keys present; otherwise it adds exactly one    *)
(* Error, at the position of the map.                                       *)
C10_AnyOf ==
    [][RuleStep("anyOf") /\ Top.schema[1].AnyOf # <<>> =>
         LET groups == Top.schema[1].AnyOf
         IN IF \E g \in DOMAIN groups : \A j \in DOMAIN groups[g] : PresentInMap(groups[g][j])
            THEN NewErrors = <<>>
            ELSE OneNewErrorAt(Top.node.Line, Top.node.Column)]_vars

(* AnyOf = [[a, b], [b, c]] over {b: ~}: both groups are partially present  *)
(* and the one Error of the run is at the map                               *)
C10_Witness ==
    /\ pc = "done"
    /\ schema # <<>> /\ schema[1].AnyOf = <<<<kA, kB>>, <<kB, kC>>>>
    /\ Len(stream) = 1 /\ stream[1].root.Content # <<>>
    /\ Len(stream[1].root.Content[1].Content) = 2
    /\ stream[1].root.Content[1].Content[1].Value = kB
    /\ Len(Errors) = 1
    /\ Errors[1].Message.text = "at least one of the groups is required"
    /\ Errors[1].Line = stream[1].root.Content[1].Line
    /\ Errors[1].Column = stream[1].root.Content[1].Column

(* the value node of a present key *)
ValueNodeOf(key) ==
    Top.pairs[CHOOSE j \in DOMAIN Top.pairs : Top.pairs[j].key.Value = key].value

(* the rule fires: its condition field is present, the value node of the    *)
(* field is a scalar and the text of the scalar is the condition value      *)
Fires(rule) ==
    /\ PresentInMap(rule.ConditionField)
    /\ ValueNodeOf(rule.ConditionField).Kind = ScalarNode
    /\ ValueNodeOf(rule.ConditionField).Value = rule.ConditionValue

Pos(line, col) == [Line |-> line, Column |-> col]
PosOf(node) == Pos(node.Line, node.Column)

(* the positions of the Errors a rule asks for: one at the condition value  *)
(* node for every entry of ThenRequired that is absent, one at the key node *)
(* for every entry of ThenForbidden that is present                         *)
RulePositions(rule) ==
    IF ~Fires(rule) THEN <<>>
    ELSE Concat([j \in DOMAIN rule.ThenRequired |->
                   IF PresentInMap(rule.ThenRequired[j]) THEN <<>>
                   ELSE <<PosOf(ValueNodeOf(rule.ConditionField))>>])
         \o Concat([j \in DOMAIN rule.ThenForbidden |->
                      IF PresentInMap(rule.ThenForbidden[j])
                      THEN <<PosOf(KeyNodeOf(rule.ThenForbidden[j]))>>
                      ELSE <<>>])

(* the number of diagnostics of the list at the position *)
CountAt(diags, p) == Cardinality({j \in DOMAIN diags : Pos(diags[j].Line, diags[j].Column) = p})
CountOf(positions, p) == Cardinality({j \in DOMAIN positions : positions[j] = p})

(* C11: the conditional rules of a map, checked in a context that has not   *)
(* stopped. A rule fires only when its condition field is present, the      *)
(* value node is a scalar and its text equals ConditionValue. A fired rule  *)
(* adds one Error at the condition value node for each entry of             *)
(* ThenRequired that is absent and one Error at the key node for each entry *)
(* of ThenForbidden that is present; a rule that does not fire adds         *)
(* nothing, and no Warning is added. Under StopOnFirst the first of these   *)
(* Errors stops the run, so only that one is added.                         *)
C11_Conditions ==
    [][RuleStep("conditions") =>
         LET rules == Top.schema[1].Conditions
             expected == Concat([r \in DOMAIN rules |-> RulePositions(rules[r])])
         IN /\ NewWarnings = <<>>
            /\ IF ctx.StopOnFirst
               THEN /\ Len(NewErrors) = (IF expected = <<>> THEN 0 ELSE 1)
                    /\ \A j \in DOMAIN NewErrors :
                          CountOf(expected, Pos(NewErrors[j].Line, NewErrors[j].Column)) > 0
               ELSE /\ Len(NewErrors) = Len(expected)
                    /\ \A j \in DOMAIN expected :
                          CountAt(NewErrors, expected[j]) = CountOf(expected, expected[j])]_vars

(* the rule "a = 7 requires b and c and forbids b and c" over {a: 7, c: ~}: *)
(* one Error at the value of a (1:4) and one at the key c (2:1)             *)
C11_Witness ==
    /\ pc = "done"
    /\ schema # <<>>
    /\ schema[1].Conditions = <<ConditionalRule(kA, <<"7">>, <<kB, kC>>, <<kB, kC>>)>>
    /\ Len(Errors) = 2
    /\ CountAt(Errors, Pos(1, 4)) = 1
    /\ CountAt(Errors, Pos(2, 1)) = 1

(* the number of diagnostics of the list with these words about the key *)
CountAbout(diags, text, key) ==
    Cardinality({j \in DOMAIN diags : diags[j].Message.text = text /\ diags[j].Message.key = key})

(* the keys of AllowedKeys that are absent from the map under validation *)
AbsentKeys == {k \in DOMAIN Top.schema[1].AllowedKeys : ~PresentInMap(k)}
MissingRequired == {k \in AbsentKeys : Top.schema[1].AllowedKeys[k].Required}
Defaulted ==
    {k \in AbsentKeys : /\ Top.schema[1].AllowedKeys[k].Default # <<>>
                        /\ ~Top.schema[1].AllowedKeys[k].Required}

CountText(diags, text) == Cardinality({j \in DOMAIN diags : diags[j].Message.text = text})

(* C13: a sequence of n items validated in a context that has not stopped.  *)
(* "too few items" is added iff MinItems is set and n < MinItems; "too many *)
(* items" is added iff MaxItems is set and n > MaxItems (under StopOnFirst  *)
(* a "too few items" Error stops the run before the second check). Whatever *)
(* the count checks found, when ItemSchema is set the loop over the items   *)
(* starts at the first item, and as long as the context has not stopped the *)
(* item i (from 0) is validated against ItemSchema with the path of the     *)
(* sequence followed by [i]; without ItemSchema no item is validated.       *)
C13_Sequence ==
    /\ [][At("validateSequence", "counts") /\ ~ctx.stopped =>
            LET n == Len(Top.node.Content)
                sch == Top.schema[1]
                few == sch.MinItems # <<>> /\ n < sch.MinItems[1]
                many == sch.MaxItems # <<>> /\ n > sch.MaxItems[1]
            IN /\ NewWarnings = <<>>
               /\ Len(NewErrors) = CountText(NewErrors, "too few items")
                                     + CountText(NewErrors, "too many items")
               /\ CountText(NewErrors, "too few items") = (IF few THEN 1 ELSE 0)
               /\ CountText(NewErrors, "too many items")
                     = (IF many /\ ~(ctx.StopOnFirst /\ few) THEN 1 ELSE 0)
               /\ IF sch.ItemSchema = <<>> THEN stack' = Popped
                  ELSE stack' = Popped \o <<[Top EXCEPT !.pc = "items", !.i = 1]>>]_vars
    /\ [][At("validateSequence", "items") /\ ~ctx.stopped /\ Top.i <= Len(Top.node.Content) =>
            stack' = Popped \o <<[Top EXCEPT !.i = @ + 1],
                                 Frame("validateNode", "enter", Top.node.Content[Top.i],
                                       Top.schema[1].ItemSchema,
                                       Top.path \o <<IdxTok(Top.i - 1)>>)>>]_vars

(* [1, x] against MaxItems 1 and items of type int: "too many items", then  *)
(* the type Error of the second item at the path [1]                        *)
C13_Witness ==
    /\ pc = "done"
    /\ stream = <<Doc(MakeSeq(<<Entry(<<>>, IntTag, <<"1">>), Entry(<<>>, StrTag, <<"x">>)>>))>>
    /\ Len(Errors) = 2
    /\ Errors[1].Message.text = "too many items"
    /\ Errors[2].Path = <<IdxTok(1)>>

(* the places of the list of calls where this call was made *)
CallsOf(call) == {n \in DOMAIN calls : calls[n] = call}

(* the frames of validateMapping that are in the loop over the pairs *)
MapLoops == {d \in DOMAIN stack : stack[d].fn = "validateMapping" /\ stack[d].pc = "pairs"}

(* C14: while a map is validated (in a context that has not stopped; a map  *)
(* whose validation a stop ends is left unfinished), every key name of the  *)
(* map, recognised or not, duplicates and merged keys resolved, has been    *)
(* passed to every configured key validator exactly once as soon as the     *)
(* loop is past the key, and not at all before; the value of a key is handed  *)
(* to validateNode at most once, and only after every key validator has     *)
(* received that key.                                                       *)
C14_KeyValidators ==
    \A d \in MapLoops :
       LET f == stack[d]
       IN \A idx \in DOMAIN f.pairs :
             LET key == f.pairs[idx].key.Value
                 fieldPath == IF f.path = <<>> THEN <<KeyTok(key)>>
                              ELSE f.path \o <<DotTok, KeyTok(key)>>
                 valueCalls == CallsOf(Call("validateNode", 0, key, fieldPath))
             IN /\ \A j \in DOMAIN f.schema[1].KeyValidators :
                      LET keyCalls == CallsOf(Call("ValidateKey", j, key, cleanPath(fieldPath)))
                      IN /\ Cardinality(keyCalls) = (IF idx < f.i THEN 1 ELSE 0)
                         /\ \A n \in keyCalls : \A m \in valueCalls : n < m
                /\ Cardinality(valueCalls) <= 1
                /\ idx >= f.i => valueCalls = {}

(* {name: 3, u: 1} against a length validator and a forbidden-key validator *)
(* with AdditionalProperties: both unknown keys went to both validators,    *)
(* each before its value                                                    *)
C14_Witness ==
    /\ pc = "done"
    /\ stream = <<Doc(MakeMap(<<Entry(kName, IntTag, <<"3">>), Entry(kU, IntTag, <<"1">>)>>))>>
    /\ calls = <<Call("ValidateKey", 1, kName, <<KeyTok(kName)>>),
                 Call("ValidateKey", 2, kName, <<KeyTok(kName)>>),
                 Call("validateNode", 0, kName, <<KeyTok(kName)>>),
                 Call("ValidateKey", 1, kU, <<KeyTok(kU)>>),
                 Call("ValidateKey", 2, kU, <<KeyTok(kU)>>),
                 Call("validateNode", 0, kU, <<KeyTok(kU)>>)>>

(* the tab stop after the visual width w: the next multiple of the tab width *)
NextTabStop(w) == CHOOSE m \in (w + 1)..(w + 4) : m % 4 = 0

RECURSIVE WidthBefore(_, _)
(* the visual width of the scalars of the line before the scalar k *)
WidthBefore(line, k) ==
    IF k <= 1 THEN 0
    ELSE IF line[k - 1].ch = TabCh THEN NextTabStop(WidthBefore(line, k - 1))
    ELSE WidthBefore(line, k - 1) + 1

(* the number of bytes of the line before the scalar k *)
BytesBefore(line, k) == ByteLen(SubSeq(line, 1, k - 1))

(* C15: RenderLineWithCaret on a line and a 1-based byte column. Every tab  *)
(* is rendered as the 1 to 4 spaces that reach the next multiple of 4,      *)
(* every other scalar takes one column, and the rendered line holds no tab. *)
(* A byte column at the first byte of a scalar gives the visual column 1 +  *)
(* the visual width of the scalars before it; a byte column beyond the end  *)
(* of the line gives renderedLen + 1; and for every byte column >= 1 the    *)
(* visual column lies in 1..renderedLen + 1.                                *)
C15_RenderLine ==
    pc = "render" /\ render.returned =>
       LET line == render.line
           n == Len(line)
           total == WidthBefore(line, n + 1)
       IN /\ \A i \in DOMAIN render.rendered : render.rendered[i] # TabCh
          /\ render.renderedLen = total
          /\ Len(render.rendered) = total
          /\ \A k \in 1..n :
                LET from == WidthBefore(line, k)
                    to == WidthBefore(line, k + 1)
                IN IF line[k].ch = TabCh
                   THEN /\ to - from \in 1..4
                        /\ to % 4 = 0
                        /\ \A i \in (from + 1)..to : render.rendered[i] = " "
                   ELSE /\ to = from + 1
                        /\ render.rendered[to] = (IF line[k].ch = BadByte THEN RuneError
                                                  ELSE line[k].ch)
          /\ \A k \in 1..n :
                render.byteCol = BytesBefore(line, k) + 1 =>
                   render.visualCol = 1 + WidthBefore(line, k)
          /\ render.byteCol > ByteLen(line) => render.visualCol = render.renderedLen + 1
          /\ render.byteCol >= 1 => render.visualCol \in 1..(render.renderedLen + 1)

(* "ab<TAB>cd" with the byte column 4 is rendered "ab  cd", the caret in    *)
(* the visual column 5                                                      *)
C15_Witness ==
    /\ render.returned
    /\ render.line = LineAbTabCd
    /\ render.byteCol = 4
    /\ render.rendered = <<"a", "b", " ", " ", "c", "d">>
    /\ render.visualCol = 5

(* C16: a byte column strictly inside a scalar of several bytes gives the   *)
(* visual column immediately before that scalar: 1 + the visual width of    *)
(* the scalars before it.                                                   *)
C16_CaretBeforeScalar ==
    pc = "render" /\ render.returned =>
       \A k \in DOMAIN render.line :
          /\ render.byteCol > BytesBefore(render.line, k) + 1
          /\ render.byteCol <= BytesBefore(render.line, k) + render.line[k].size
          => render.visualCol = 1 + WidthBefore(render.line, k)

(* x is at a smaller (line, column) than y *)
PosBefore(x, y) == x.Line < y.Line \/ (x.Line = y.Line /\ x.Column < y.Column)

(* the list is in non-decreasing order of (line, column) *)
SortedByPos(diags) == \A i, j \in DOMAIN diags : i < j => ~PosBefore(diags[j], diags[i])

(* the number of occurrences of the element in the list *)
Occurrences(list, x) == Cardinality({i \in DOMAIN list : list[i] = x})

(* the header of a formatted diagnostic names a smaller (line, column), or  *)
(* the same one without being a Warning ahead of an Error                   *)
HeaderInOrder(h, g) ==
    \/ h.pos[1] < g.pos[1]
    \/ h.pos[1] = g.pos[1] /\ h.pos[2] < g.pos[2]
    \/ h.pos = g.pos /\ ~(h.level = "WARNING" /\ g.level = "ERROR")

(* C17: FormatAll(true) renders every diagnostic of the collector, the      *)
(* Errors and the Warnings interleaved in non-decreasing (line, column)     *)
(* order with an Error before a Warning at the same position, and it leaves *)
(* the Collector (Errors() and Warnings(), contents and order) as it was.   *)
C17_FormatAllSorted ==
    /\ [](pc = "FormatAll(true)" =>
            /\ Len(output) = Len(result.Collector.errors) + Len(result.Collector.warnings)
            /\ \A d \in Range(result.Collector.errors) \cup Range(result.Collector.warnings) :
                  Occurrences(output, FormatErrorWithSource(d, result.SourceLines))
                    = Occurrences(result.Collector.errors \o result.Collector.warnings, d)
            /\ \A i, j \in DOMAIN output :
                  i < j => HeaderInOrder(output[i].header, output[j].header))
    /\ [][pc' = "FormatAll(true)" => result' = result]_vars

(* a Warning at 1:1 and an Error at 2:1 are formatted in this order, the    *)
(* collector still listing the Error first                                  *)
C17_Witness ==
    /\ pc = "FormatAll(true)"
    /\ All(result.Collector) = <<Diag(LevelError, 2, 1, "a"), Diag(LevelWarning, 1, 1, "a")>>
    /\ Len(output) = 2
    /\ output[1].header.level = "WARNING" /\ output[1].header.pos = <<1, 1>>
    /\ output[2].header.level = "ERROR" /\ output[2].header.pos = <<2, 1>>

(* the diagnostics of the list at the position, in the order of the list *)
AtPos(diags, line, col) == SelectSeq(diags, LAMBDA d : d.Line = line /\ d.Column = col)

(* the list sorted by (line, column), equal positions in the order of the list *)
StableByPos(diags) ==
    LET lines == {diags[i].Line : i \in DOMAIN diags}
        cols == {diags[i].Column : i \in DOMAIN diags}
        maxLine == IF lines = {} THEN 0 ELSE CHOOSE m \in lines : \A l \in lines : l <= m
        maxCol == IF cols = {} THEN 0 ELSE CHOOSE m \in cols : \A l \in cols : l <= m
    IN Concat([line \in 1..maxLine |->
                 Concat([col \in 1..maxCol |-> AtPos(diags, line, col)])])

(* C18: SortByPosition is a stable sort by (line, column, Errors before     *)
(* Warnings), for collectors of any size: the collector holds the same      *)
(* diagnostics, each under its severity, in (line, column) order, and       *)
(* diagnostics that compare equal keep their relative insertion order.      *)
C18_StableSort ==
    [][pc' = "SortByPosition" =>
         /\ result'.Collector.errors = StableByPos(result.Collector.errors)
         /\ result'.Collector.warnings = StableByPos(result.Collector.warnings)]_vars

(* C19 as stated: after SortByPosition(), All() is sorted by position, also *)
(* when the diagnostic at the smaller position is a Warning and the other   *)
(* an Error.                                                                *)
C19_AsStated == pc = "SortByPosition" => SortedByPos(All(result.Collector))

(* C19: after SortByPosition(), Errors() and Warnings() are each sorted by  *)
(* (line, column), and All() is the Errors followed by the Warnings: a      *)
(* Warning comes after every Error, also when it is at a smaller position.  *)
C19_SortedPerLevel ==
    pc = "SortByPosition" =>
       /\ SortedByPos(result.Collector.errors)
       /\ SortedByPos(result.Collector.warnings)
       /\ \A i \in DOMAIN result.Collector.errors : result.Collector.errors[i].Level = LevelError
       /\ \A i \in DOMAIN result.Collector.warnings :
             result.Collector.warnings[i].Level = LevelWarning
       /\ All(result.Collector) = result.Collector.errors \o result.Collector.warnings

(* after the sort All() lists the Errors at 1:2 and 2:1 and then the        *)
(* Warning at 1:1                                                           *)
C19_Witness ==
    /\ pc = "SortByPosition"
    /\ All(result.Collector) = <<Diag(LevelError, 1, 2, "a"), Diag(LevelError, 2, 1, "a"),
                                 Diag(LevelWarning, 1, 1, "a")>>

(* C20: whatever was added to a collector, Errors() is the subsequence of   *)
(* the added diagnostics of level Error in insertion order, Warnings() the  *)
(* subsequence of all the others, All() is Errors() followed by Warnings(), *)
(* and HasErrors() holds iff an Error was added; Add appends its argument   *)
(* to one of the two lists and removes or reorders nothing.                 *)
C20_Collector ==
    /\ [](/\ result.Collector.errors = SelectSeq(adds, LAMBDA d : d.Level = LevelError)
          /\ result.Collector.warnings = SelectSeq(adds, LAMBDA d : d.Level # LevelError)
          /\ All(result.Collector) = result.Collector.errors \o result.Collector.warnings
          /\ HasErrors(result.Collector) <=> \E i \in DOMAIN adds : adds[i].Level = LevelError)
    /\ [][pc' = "Add" =>
            IF Head(pending).Level = LevelError
            THEN /\ result'.Collector.errors = Append(result.Collector.errors, Head(pending))
                 /\ result'.Collector.warnings = result.Collector.warnings
            ELSE /\ result'.Collector.warnings = Append(result.Collector.warnings, Head(pending))
                 /\ result'.Collector.errors = result.Collector.errors]_vars

(* a Warning, an Error and a second Warning were added *)
C20_Witness ==
    /\ pc = "Add"
    /\ adds = <<Diag(LevelWarning, 2, 1, "a"), Diag(LevelError, 1, 2, "a"),
                Diag(LevelWarning, 1, 1, "a")>>
    /\ result.Collector.errors = <<Diag(LevelError, 1, 2, "a")>>
    /\ result.Collector.warnings = <<Diag(LevelWarning, 2, 1, "a"), Diag(LevelWarning, 1, 1, "a")>>

(* the boolean literals of YAML 1.1, in lower case *)
BoolLiterals == {<<"y">>, <<"y","e","s">>, <<"t","r","u","e">>, <<"o","n">>,
                 <<"n">>, <<"n","o">>, <<"f","a","l","s","e">>, <<"o","f","f">>}

(* the type check of validateNode runs on a scalar the parser tagged as a   *)
(* string, as it tags yes and "yes"                                         *)
StringScalarChecked ==
    /\ TypeChecked
    /\ Top.node.Kind = ScalarNode
    /\ Top.node.Tag = StrTag

(* C21: a scalar the parser tags as a string, unquoted like yes or quoted   *)
(* like "yes", under the type check of validateNode. With YAML11Booleans    *)
(* disabled it is not inferred as Bool: a TypeBool schema adds exactly one  *)
(* Error for it. With YAML11Booleans enabled it is inferred as Bool         *)
(* whenever its lowercased text is one of y, yes, true, on, n, no, false,   *)
(* off: a TypeBool schema adds no Error and a TypeString schema adds        *)
(* exactly one; any other text stays a String.                              *)
C21_YAML11Booleans ==
    [][StringScalarChecked =>
         IF ctx.YAML11Booleans /\ ToLower(Top.node.Value) \in BoolLiterals
         THEN /\ ExpectedType = TypeBool => NewErrors = <<>>
              /\ ExpectedType = TypeString => OneNewError("type mismatch")
         ELSE /\ ExpectedType = TypeBool => OneNewError("type mismatch")
              /\ ExpectedType = TypeString => NewErrors = <<>>]_vars

(* "No" passed a Bool schema with YAML11Booleans enabled *)
C21_Witness ==
    /\ pc = "done"
    /\ ctx.YAML11Booleans
    /\ schema # <<>> /\ schema[1].Type = TypeBool
    /\ stream = <<Doc(Scalar(StrTag, <<"N","o">>, 1, 1))>>
    /\ Errors = <<>>

(* a value validator of the schema is about to receive the node *)
ValidatorStep ==
    /\ At("validateNode", "validators")
    /\ ~ctx.stopped
    /\ Top.i <= Len(Top.schema[1].Validators)

(* C22: LengthValidator measures a scalar in Unicode characters, not in     *)
(* bytes: it adds "length above maximum" only for a scalar of more          *)
(* characters than Max and "length below minimum" only for one of fewer     *)
(* characters than Min, so that a string of 6 characters in 12 bytes        *)
(* satisfies Max 6 and adds no Error.                                       *)
C22_LengthInCharacters ==
    [][/\ ValidatorStep
       /\ Top.schema[1].Validators[Top.i].name = "Length"
       /\ Top.node.Kind = ScalarNode
       => LET vld == Top.schema[1].Validators[Top.i]
              characters == Len(Top.node.Value)
          IN /\ CountText(NewErrors, "length above maximum") > 0
                  => vld.Max # <<>> /\ characters > vld.Max[1]
             /\ CountText(NewErrors, "length below minimum") > 0
                  => vld.Min # <<>> /\ characters < vld.Min[1]]_vars

(* what the deprecation of a schema says *)
DeprecationText(sch) ==
    IF sch.Deprecated = "true" THEN "this field is deprecated" ELSE sch.Deprecated

(* C23: a node validated against a schema whose Deprecated is not empty     *)
(* (the context has not stopped and the node is not an unresolved alias)    *)
(* gets exactly one Warning, at the node, with the generic text for "true"  *)
(* and the text of the field otherwise; the Errors added, the stopped flag  *)
(* and the continuation into the structure and the value validators are     *)
(* those of the same schema without the deprecation, and no other step      *)
(* adds a Warning with these words.                                         *)
C23_Deprecated ==
    [][IF TypeChecked
       THEN LET sch == Top.schema[1]
                plain == validateNodeHead(anchors, Top.node,
                                          <<[sch EXCEPT !.Deprecated = ""]>>, Top.path, ctx)
            IN /\ IF sch.Deprecated = "" THEN NewWarnings = <<>>
                  ELSE /\ Len(NewWarnings) = 1
                       /\ NewWarnings[1].Level = LevelWarning
                       /\ NewWarnings[1].Message.text = DeprecationText(sch)
                       /\ NewWarnings[1].Path = cleanPath(Top.path)
                       /\ NewWarnings[1].Line = plain.node.Line
                       /\ NewWarnings[1].Column = plain.node.Column
               /\ ctx'.collector.errors = plain.ctx.collector.errors
               /\ ctx'.stopped = plain.ctx.stopped
               /\ (stack' = Popped) <=> ~plain.go
               /\ plain.go =>
                    /\ Len(stack') >= Len(stack)
                    /\ stack'[Len(stack)].schema = Top.schema
                    /\ stack'[Len(stack)].pc = "validators"
                    /\ stack'[Len(stack)].i = 1
       ELSE CountText(NewWarnings, "this field is deprecated") = 0
            /\ CountText(NewWarnings, "use host") = 0]_vars

C23_Witness ==
    /\ pc = "done" /\ schema # <<>> /\ schema[1].Deprecated = "use host"
    /\ schema[1].Validators # <<>>
    /\ Len(Warnings) = 1 /\ Warnings[1].Message.text = "use host"
    /\ Len(Errors) = 1 /\ Errors[1].Message.text = "length above maximum"

(* the calls of validators and of validateNode that a step makes *)
NewCalls == SubSeq(calls', Len(calls) + 1, Len(calls'))

(* the context in which the j-th call of a step over a map pair is made:    *)
(* the key validators before it in the list have run                        *)
ContextOfCall(j) ==
    LET kv == Top.pairs[Top.i]
        fieldPath == joinPath(Top.path, kv.key.Value)
    IN ValidateKeyAll(SubSeq(Top.schema[1].KeyValidators, 1, j - 1), kv.key.Value, kv.key,
                      cleanPath(fieldPath), ctx)

(* C24, its parts. Once the stopped flag is set, the steps that follow call *)
(* no validator, add nothing to the context and enter no frame.             *)
C24_NothingAfterStoppedStep ==
    [][ctx.stopped => /\ calls' = calls
                      /\ ctx' = ctx
                      /\ Len(stack') <= Len(stack)]_vars

(* C24: cooperative cancellation. Once the stopped flag is set no value     *)
(* validator and no key validator is invoked again, no further map pair or  *)
(* sequence item is visited and no validateNode call does any work: a step  *)
(* taken with the flag set calls nothing and adds nothing, and within the   *)
(* step over a map pair every key validator is invoked with the flag unset. *)
C24_Cancellation ==
    [][/\ ctx.stopped => /\ calls' = calls
                          /\ ctx' = ctx
                          /\ Len(stack') <= Len(stack)
       /\ \A j \in DOMAIN NewCalls :
             NewCalls[j].op = "ValidateKey" => ~IsStopped(ContextOfCall(NewCalls[j].idx))]_vars

(* the pairs a mapping node writes itself, and the pairs its merge keys     *)
(* bring, each in source order                                              *)
ExplicitPairs(node) ==
    Concat([j \in 1..(Len(node.Content) \div 2) |->
              IF node.Content[2 * j - 1].Value = MergeKey THEN <<>>
              ELSE <<kvPair(node.Content[2 * j - 1], node.Content[2 * j])>>])
MergedPairs(node) ==
    Concat([j \in 1..(Len(node.Content) \div 2) |->
              IF node.Content[2 * j - 1].Value = MergeKey
              THEN extractMergePairs(anchors, node.Content[2 * j])
              ELSE <<>>])
KeysOf(pairs) == {pairs[j].key.Value : j \in DOMAIN pairs}

(* C25: in the list expandMappingWithMerges returns, a key the map writes   *)
(* itself keeps the value the map gives it, whether it stands before or     *)
(* after the << entry; a key that only merges define has the value of the   *)
(* last merged map that defines it (later << entries and later maps of a    *)
(* sequence override earlier ones).                                         *)
C25_ExplicitOverridesMerge ==
    \A d \in DOMAIN stack :
       stack[d].fn = "validateMapping" =>
          LET explicit == ExplicitPairs(stack[d].node)
              merged == MergedPairs(stack[d].node)
              out == stack[d].pairs
          IN /\ KeysOf(out) = KeysOf(explicit) \cup KeysOf(merged)
             /\ \A k \in DOMAIN out :
                   IF out[k].key.Value \in KeysOf(explicit)
                   THEN \E j \in DOMAIN explicit : out[k] = explicit[j]
                   ELSE \E j \in DOMAIN merged :
                           /\ out[k] = merged[j]
                           /\ \A i \in (j + 1)..Len(merged) :
                                  merged[i].key.Value # out[k].key.Value

(* the type check of the node entering validateNode fails *)
TypeCheckFails ==
    /\ ExpectedType # TypeAny
    /\ IF ActualType = TypeNull
       THEN ExpectedType # TypeNull /\ ~Top.schema[1].Nullable
       ELSE ActualType # ExpectedType /\ ~(ExpectedType = TypeFloat /\ ActualType = TypeInt)

(* the values of the pairs of a map that validateMapping hands to           *)
(* validateNode: those of the keys of AllowedKeys, and all of them when     *)
(* AdditionalProperties is set                                              *)
ChildCalls(node, sch, path) ==
    LET pairs == expandMappingWithMerges(anchors, node)
    IN {Call("validateNode", 0, pairs[j].key.Value, joinPath(path, pairs[j].key.Value)) :
          j \in {x \in DOMAIN pairs : \/ pairs[x].key.Value \in DOMAIN sch.AllowedKeys
                                      \/ sch.AdditionalProperties # <<>>}}

(* C26: when the type check of a node fails (the context has not stopped)   *)
(* exactly one Error is added and validateNode returns: no frame of         *)
(* validateMapping or validateSequence is entered, so no child is validated *)
(* and no inter-field rule evaluated, and no validator is called. A value   *)
(* validator is called only from the loop over schema.Validators of a node  *)
(* that passed the type check, the i-th iteration calling the i-th          *)
(* validator once and moving to the next (a stop ends the loop), and for a  *)
(* map only after the values of its pairs were handed to validateNode.      *)
C26_TypeCheckGate ==
    [][/\ TypeChecked /\ TypeCheckFails
          => /\ Len(NewErrors) = 1 /\ NewErrors[1].Level = LevelError
             /\ NewErrors[1].Message.text \in {"type mismatch", "unexpected null value"}
             /\ stack' = Popped
             /\ calls' = calls
       /\ (\E j \in DOMAIN NewCalls : NewCalls[j].op = "Validate") => ValidatorStep
       /\ ValidatorStep
          => /\ NewCalls = <<Call("Validate", Top.i, <<>>, cleanPath(Top.path))>>
             /\ stack' = Popped \o <<[Top EXCEPT !.i = @ + 1]>>
             /\ checkTypeWithSchema(anchors, Top.node, Top.schema[1], Top.path, ctx).ok
             /\ \A j \in 1..Len(calls) :
                   calls[j].op = "Validate" /\ calls[j].path = cleanPath(Top.path)
                     => calls[j].idx < Top.i
             /\ Top.node.Kind = MappingNode
                  => \A call \in ChildCalls(Top.node, Top.schema[1], Top.path) :
                        \E j \in DOMAIN calls : calls[j] = call]_vars

(* a map met a schema of another type that has value validators: one Error  *)
(* and no call                                                              *)
C26_Witness ==
    /\ pc = "done" /\ schema # <<>> /\ schema[1].Validators # <<>>
    /\ schema[1].Type = TypeString
    /\ Len(stream) = 1 /\ ~stream[1].err
    /\ stream[1].root.Content[1].Kind = MappingNode
    /\ Len(Errors) = 1 /\ Errors[1].Message.text = "type mismatch"
    /\ calls = <<>>

(* an integer literal as the documentation of looksLikeInt lists them: an   *)
(* optional sign, then decimal digits (not the legacy octal form, a zero    *)
(* before octal digits), or a radix prefix and digits of the radix, the     *)
(* value within 64 bits                                                     *)
IntegerLiteral(s) ==
    LET signed == s # <<>> /\ Head(s) \in {"+", "-"}
        neg == s # <<>> /\ Head(s) = "-"
        u == IF signed THEN Tail(s) ELSE s
        pfx == IF Len(u) >= 2 THEN Take(u, 2) ELSE <<>>
        radix == CASE pfx \in {<<"0","x">>, <<"0","X">>} -> 16
                   [] pfx \in {<<"0","o">>, <<"0","O">>} -> 8
                   [] pfx \in {<<"0","b">>, <<"0","B">>} -> 2
                   [] OTHER -> 10
        ds == IF radix = 10 THEN u ELSE Drop(u, 2)
        legacyOctal == /\ radix = 10 /\ Len(ds) > 1 /\ Head(ds) = "0"
                       /\ \A i \in DOMAIN ds : ds[i] \in OctDigits
    IN /\ ds # <<>>
       /\ \A i \in DOMAIN ds : ds[i] \in DigitsOfBase(radix)
       /\ ~legacyOctal
       /\ FitsInt64(ds, radix, neg)

(* the type check infers the type of a scalar from its text, reaching       *)
(* looksLikeInt: no known tag, no StrictTypes, not a null or boolean word   *)
ReachesLooksLikeInt ==
    /\ TypeChecked
    /\ Top.node.Kind = ScalarNode
    /\ Top.node.Tag \notin {StrTag, IntTag, FloatTag, BoolTag, NullTag}
    /\ ~ctx.StrictTypes
    /\ ToLower(Top.node.Value) \notin {<<"n","u","l","l">>, <<"t","r","u","e">>,
                                       <<"f","a","l","s","e">>}
    /\ Top.node.Value # <<"~">>
    /\ ~(ctx.YAML11Booleans /\ ToLower(Top.node.Value) \in YAML11Words)

(* C27: looksLikeInt accepts a string exactly when it is an integer         *)
(* literal: an optional single sign, then decimal digits, or 0x/0X and      *)
(* hexadecimal digits, or 0o/0O and octal digits, or 0b/0B and binary       *)
(* digits, within 64 bits; no second sign, no sign after the radix prefix,  *)
(* no legacy octal such as 0777. A scalar whose type is read from its text  *)
(* is an Int exactly when its text is such a literal.                       *)
C27_LooksLikeInt ==
    [][ReachesLooksLikeInt =>
          /\ looksLikeInt(Top.node.Value) <=> IntegerLiteral(Top.node.Value)
          /\ ActualType = TypeInt <=> IntegerLiteral(Top.node.Value)
          /\ ExpectedType = TypeInt => (NewErrors = <<>> <=> IntegerLiteral(Top.node.Value))]_vars

(* C28: the list expandMappingWithMerges returns holds no pair whose key is *)
(* <<, also when a merged map has a << entry of its own; no diagnostic      *)
(* reports << as an unknown key and no key validator or validateNode call   *)
(* receives it.                                                             *)
C28_MergeKeysExpanded ==
    /\ \A d \in DOMAIN stack :
          stack[d].fn = "validateMapping" =>
             \A k \in DOMAIN stack[d].pairs : stack[d].pairs[k].key.Value # MergeKey
    /\ \A j \in DOMAIN Errors : Errors[j].Message # MsgKey("unknown key", MergeKey)
    /\ \A j \in DOMAIN Warnings : Warnings[j].Message # MsgKey("unknown key", MergeKey)
    /\ \A j \in DOMAIN calls : calls[j].key # MergeKey

(* C29: validation is deterministic: two runs on the same schema, options   *)
(* and input add the same Errors and Warnings in the same order. Every step *)
(* of a run but two has a single outcome; the two that range over the map   *)
(* AllowedKeys, the check of the required fields and the check of the       *)
(* defaults, leave the same collector and the same stopped flag in whatever *)
(* order the keys are visited, also under StopOnFirst.                      *)
C29_Deterministic ==
    [][/\ At("validateMapping", "pairs") /\ Top.i > Len(Top.pairs)
          => \A order \in Orders(DOMAIN Top.schema[1].AllowedKeys) :
                ctx' = checkRequiredFields(Top.node, Top.schema[1], Top.path,
                                           Top.foundKeys, ctx, order)
       /\ At("validateMapping", "defaults")
          => \A order \in Orders(DOMAIN Top.schema[1].AllowedKeys) :
                ctx' = checkDefaults(Top.node, Top.schema[1], Top.path,
                                     Top.foundKeys, ctx, order)]_vars

(* C30: the validation of a document terminates and returns a result, also  *)
(* when an alias refers to a node that contains it (a merge key whose value *)
(* is a sequence holding an alias of that sequence): the run never ends in  *)
(* the fatal error of an exhausted stack, and once the documents are read   *)
(* no call is left on the stack.                                            *)
C30_Terminates ==
    /\ pc # "fatal"
    /\ pc = "done" => stack = <<>>

====
